---- MODULE Spec2Model ----
(***************************************************************************)
(* Model of the BigQuery usage extractor                                   *)
(* (metadata-ingestion/src/datahub/ingestion/source/bigquery_v2/usage.py): *)
(* the event store BigQueryUsageState, the ingestion step                  *)
(* _store_usage_event, the aggregation query usage_statistics_query, the   *)
(* operational pass, the run sequence of _run, and the event stream of     *)
(* _get_usage_events.                                                      *)
(***************************************************************************)
EXTENDS Integers, Sequences, FiniteSets, TLC

VARIABLES pc, log, config, conn, read_events, column_accesses, query_events,
          queries, uuid_to_query, report, operation_wus, usage_wus,
          projects, project_idx, entries_fetched, yielded

vars == <<pc, log, config, conn, read_events, column_accesses, query_events,
          queries, uuid_to_query, report, operation_wus, usage_wus,
          projects, project_idx, entries_fetched, yielded>>

\* the state of the generator _get_usage_events: its argument, the position
\* of its loop, the entries fetched for the project at that position, and
\* the events it has yielded
extraction == <<projects, project_idx, entries_fetched, yielded>>

store == <<read_events, column_accesses, query_events, queries>>

(***************************************************************************)
(* Bounds of the model.                                                    *)
(***************************************************************************)
\* longest input stream of the general specification
MaxEvents == 3
\* longest input stream of the specification over the colliding queries
MaxCollideEvents == 4

(***************************************************************************)
(* Values.  Python's None is the string "None" for optional strings and    *)
(* NoTable for an optional table reference; an AuditEvent is a record that *)
(* has the field read_event and/or query_event only when it is set.        *)
(***************************************************************************)
None == "None"
NoTable == [dataset |-> <<>>, table |-> None]
\* None for an optional query text: no text holds the character 0
NoQuery == <<0>>

TableRef(d, t) == [dataset |-> d, table |-> t]
T1 == TableRef(<<"d">>, "t1")
T2 == TableRef(<<"d">>, "t2")
U1 == TableRef(<<"d">>, "u1")
TMP == TableRef(<<"_", "d">>, "t1")

\* str(BigQueryTableRef): the resource column and the members of table_refs
Str(r) == r.dataset \o <<"/", r.table>>

\* the tables known to the crawl
table_refs == {Str(T1), Str(T2), Str(TMP)}

\* config.temp_table_dataset_prefix
temp_table_dataset_prefix == <<"_">>

\* config.start_time, config.end_time, config.bucket_duration (in time units)
start_time == 0
end_time == 4
bucket_duration == 2

\* scaled-down MAX_QUERY_LENGTH
MAX_QUERY_LENGTH == 2

\* number of distinct values of the model's content hash
HashMod == 2

\* number of values a surrogate query reference is drawn from; a run mints
\* fewer than MaxCollideEvents of them
NumUUIDs == 3

RECURSIVE startswith(_, _)
startswith(s, prefix) ==
    IF prefix = <<>> THEN TRUE
    ELSE IF s = <<>> THEN FALSE
    ELSE Head(s) = Head(prefix) /\ startswith(Tail(s), Tail(prefix))

is_temporary_table(resource, prefixes) ==
    \E prefix \in prefixes : startswith(resource.dataset, prefix)

get_time_bucket(timestamp) == timestamp - (timestamp % bucket_duration)

\* query[:MAX_QUERY_LENGTH]
Truncate(query) ==
    IF Len(query) <= MAX_QUERY_LENGTH THEN query
    ELSE SubSeq(query, 1, MAX_QUERY_LENGTH)

RECURSIVE SumSeq(_)
SumSeq(s) == IF s = <<>> THEN 0 ELSE Head(s) + SumSeq(Tail(s))

\* hashlib.md5(...).hexdigest(): a content hash with collisions; the values
\* are multiples of 10 so that surrogate keys fall between and around them
md5(query) == 10 * (1 + (SumSeq(query) % HashMod))

\* the values str(uuid.uuid4()) can take as a query reference; a reference
\* is ordered against the others by the aggregation query
UUIDS == {10 * i - 5 : i \in 1 .. NumUUIDs}

\* uuid.uuid4() for a query reference: any value not minted before
uuid4(used) == UUIDS \ used

\* a row key that does not depend on what is stored already
uuid4_row_fixed(table) == 1

\* uuid.uuid4() for a row key of read_events / column_accesses: these keys
\* are never ordered or compared by the program, one fresh key stands for all
uuid4_row(table) ==
    CHOOSE k \in 1 .. (Cardinality(DOMAIN table) + 1) : k \notin DOMAIN table

\* FileBackedDict.__setitem__
Put(table, key, value) ==
    [k \in (DOMAIN table) \cup {key} |-> IF k = key THEN value ELSE table[k]]

\* Mapping.get(key, default)
Get(table, key, default) ==
    IF key \in DOMAIN table THEN table[key] ELSE default

(***************************************************************************)
(* The input events.                                                       *)
(***************************************************************************)
ReadEvent(res, ts, actor, fields, job) ==
    [resource |-> res, timestamp |-> ts, actor_email |-> actor,
     fieldsRead |-> fields, jobName |-> job]

QueryEvent(job, text, type, dest, actor, ts) ==
    [job_name |-> job, query |-> text, statementType |-> type,
     destinationTable |-> dest, actor_email |-> actor, timestamp |-> ts]

OfRead(r) == [read_event |-> r]
OfQuery(q) == [query_event |-> q]
OfBoth(r, q) == [read_event |-> r, query_event |-> q]

HasRead(event) == "read_event" \in DOMAIN event
HasQuery(event) == "query_event" \in DOMAIN event

\* query texts: TextA and TextB share a hash, TextLong truncates to TextA,
\* TextD follows TextA in the order of texts and its hash precedes TextA's
TextA == <<1, 2>>
TextB == <<2, 1>>
TextC == <<1, 1>>
TextD == <<2, 2>>
TextLong == <<1, 2, 3>>

ReadEvents ==
    { ReadEvent(T1, 0, "a@x.com", <<"c1">>, "j1"),
      ReadEvent(T1, 2, "b@x.com", <<"c1", "c2">>, "j2"),
      ReadEvent(T1, 1, "a@x.com", <<>>, None),
      ReadEvent(U1, 0, "a@x.com", <<"c1">>, "j1") }

QueryEvents ==
    { QueryEvent("j1", TextA, "SELECT", NoTable, "a@x.com", 0),
      QueryEvent("j2", TextLong, "SELECT", NoTable, "b@x.com", 1),
      QueryEvent("j1", TextB, "INSERT", T2, "b@x.com", 1),
      QueryEvent("", TextC, "INSERT", T1, "a@x.com", 0),
      QueryEvent("j2", TextC, "DELETE", U1, "b@x.com", 2) }

\* the events of the general specification
Events == {OfRead(r) : r \in ReadEvents} \cup {OfQuery(q) : q \in QueryEvents}

\* two reads of one (bucket, resource), a read of a later bucket, and the
\* queries of their jobs, with colliding and with distinct hashes
CollideEvents ==
    { OfRead(ReadEvent(T1, 0, "a@x.com", <<"c1">>, "j1")),
      OfRead(ReadEvent(T1, 1, "b@x.com", <<"c1", "c2">>, "j2")),
      OfRead(ReadEvent(T1, 2, "a@x.com", <<"c1">>, "j1")),
      OfQuery(QueryEvent("j1", TextA, "SELECT", NoTable, "a@x.com", 0)),
      OfQuery(QueryEvent("j2", TextB, "SELECT", NoTable, "b@x.com", 1)),
      OfQuery(QueryEvent("j2", TextD, "SELECT", NoTable, "b@x.com", 1)) }

Config(n, inc_n, ops, read_ops) ==
    [top_n_queries |-> n, include_top_n_queries |-> inc_n,
     include_operational_stats |-> ops,
     include_read_operational_stats |-> read_ops]

Configs ==
    { Config(2, TRUE, TRUE, TRUE),
      Config(1, TRUE, TRUE, FALSE),
      Config(2, FALSE, FALSE, TRUE) }

CollideConfigs ==
    { Config(2, TRUE, TRUE, TRUE),
      Config(1, TRUE, FALSE, FALSE) }

EmptyReport ==
    [num_usage_resources_dropped |-> 0,
     num_dropped |-> 0,
     num_usage_query_hash_collisions |-> 0,
     num_aggregated |-> 0,
     num_usage_operations_dropped |-> 0,
     num_operational_stats_workunits_emitted |-> 0,
     num_usage_workunits_emitted |-> 0,
     usage_error_count |-> [label \in {"store-event", "operation-workunit",
                                        "statistics-workunit",
                                        "log-parse-p1", "log-parse-p2",
                                        "log-parse-p3", "log-parse-*"} |-> 0],
     warnings |-> {},
     usage_failed_extraction |-> <<>>,
     usage_extraction_sec |-> {}]

\* self.report.report_warning(key, str(e)): the keys that carry a warning
report_warning(rep, key) == [rep EXCEPT !.warnings = @ \cup {key}]

\* the error neither counted nor recorded
_report_error_skipped(rep, label, n) == rep

\* self.report.usage_error_count[label] += 1 and
\* self.report.report_warning(f"usage-{label}", str(e)), n times
_report_error(rep, label, n) ==
    IF n = 0 THEN rep
    ELSE report_warning([rep EXCEPT !.usage_error_count[label] = @ + n],
                        <<"usage-", label>>)

\* BigQueryUsageExtractor.__init__ and BigQueryUsageState.__init__
InitState(configs) ==
    /\ pc = "ingest"
    /\ log = <<>>
    /\ config \in configs
    /\ conn = "open"
    /\ read_events = <<>>
    /\ column_accesses = <<>>
    /\ query_events = <<>>
    /\ queries = <<>>
    /\ uuid_to_query = <<>>
    /\ report = EmptyReport
    /\ operation_wus = <<>>
    /\ usage_wus = <<>>

\* _run called with a stream of events of its own: no project is fetched
InitWith(configs) ==
    /\ InitState(configs)
    /\ projects = <<>>
    /\ project_idx = 1
    /\ entries_fetched = 0
    /\ yielded = <<>>

(***************************************************************************)
(* Ingestion: _ingest_events calls _store_usage_event for each event.      *)
(***************************************************************************)
\* a row written for the first field read only
StoreFields_first(table, key, fields) ==
    IF fields = <<>> THEN table
    ELSE Put(table, uuid4_row(table), <<key, Head(fields)>>)

\* the ColumnAccess rows of one read: one fresh row key per field read
RECURSIVE StoreFields(_, _, _)
StoreFields(table, key, fields) ==
    IF fields = <<>> THEN table
    ELSE StoreFields(Put(table, uuid4_row(table), <<key, Head(fields)>>),
                     key, Tail(fields))

\* the end of the window taken as inside it
InWindow_closed(read) ==
    start_time <= read.timestamp /\ read.timestamp <= end_time
InWindow(read) ==
    start_time <= read.timestamp /\ read.timestamp < end_time

\* the check against table_refs left out
unknown_resource_ignored(resource) == FALSE

\* str(resource) not in table_refs
unknown_resource(resource) == Str(resource) \notin table_refs

\* the comparison with the stored text left out
hash_collision_ignored(query_hash, query) == FALSE

\* usage_state.queries.get(query_hash, query) != query
hash_collision(query_hash, query) == Get(queries, query_hash, query) # query

\* the first QueryEvent of a job kept instead of the latest
insert_query_event(query_event, key) ==
    IF query_event.job_name \in DOMAIN query_events THEN query_events
    ELSE Put(query_events, query_event.job_name,
             [query_event EXCEPT !.query = key])

\* event.query_event.query = key; query_events[job_name] = event.query_event
upsert_query_event(query_event, key) ==
    Put(query_events, query_event.job_name, [query_event EXCEPT !.query = key])

_store_usage_event(event) ==
    IF HasRead(event) /\ InWindow(event.read_event)
    THEN LET resource == event.read_event.resource IN
         IF unknown_resource(resource)
         THEN /\ report' = [report EXCEPT
                    !.num_usage_resources_dropped = @ + 1,
                    !.num_dropped = @ + 1]
              /\ UNCHANGED <<store, uuid_to_query>>
         ELSE IF is_temporary_table(resource, {temp_table_dataset_prefix})
         THEN /\ report' = [report EXCEPT !.num_dropped = @ + 1]
              /\ UNCHANGED <<store, uuid_to_query>>
         ELSE LET key == uuid4_row(read_events) IN
              /\ read_events' = Put(read_events, key, event.read_event)
              /\ column_accesses' =
                    StoreFields(column_accesses, key,
                                event.read_event.fieldsRead)
              /\ report' = [report EXCEPT !.num_aggregated = @ + 1]
              /\ UNCHANGED <<query_events, queries, uuid_to_query>>
    ELSE IF HasQuery(event) /\ event.query_event.job_name # ""
    THEN LET query == Truncate(event.query_event.query)
             query_hash == md5(query)
         IN
         IF hash_collision(query_hash, query)
         THEN \E key \in uuid4(DOMAIN uuid_to_query) :
              /\ uuid_to_query' = Put(uuid_to_query, key, query)
              /\ query_events' = upsert_query_event(event.query_event, key)
              /\ report' = [report EXCEPT
                    !.num_usage_query_hash_collisions = @ + 1,
                    !.num_aggregated = @ + 1]
              /\ UNCHANGED <<read_events, column_accesses, queries>>
         ELSE /\ queries' = Put(queries, query_hash, query)
              /\ query_events' =
                    upsert_query_event(event.query_event, query_hash)
              /\ report' = [report EXCEPT !.num_aggregated = @ + 1]
              /\ UNCHANGED <<read_events, column_accesses, uuid_to_query>>
    ELSE UNCHANGED <<store, uuid_to_query, report>>

\* event.query_event.query[:MAX_QUERY_LENGTH] raises TypeError for a
\* QueryEvent that carries no query text
StoreRaises(event) ==
    /\ ~(HasRead(event) /\ InWindow(event.read_event))
    /\ HasQuery(event)
    /\ event.query_event.job_name # ""
    /\ event.query_event.query = NoQuery

\* one iteration of the loop of _ingest_events: an exception of
\* _store_usage_event is caught and reported under "store-event"
IngestEvent(event) ==
    /\ UNCHANGED extraction
    /\ pc = "ingest"
    /\ log' = Append(log, event)
    /\ IF StoreRaises(event)
       THEN /\ report' = _report_error(report, "store-event", 1)
            /\ UNCHANGED <<store, uuid_to_query>>
       ELSE _store_usage_event(event)
    /\ UNCHANGED <<pc, config, conn, operation_wus, usage_wus>>

\* the writes to the store that _store_usage_event makes for the event, in
\* order: 1 is the write to read_events or to queries, the following ones
\* are the writes to column_accesses or the write to query_events
WritePoints(event) ==
    IF HasRead(event) /\ InWindow(event.read_event)
    THEN IF unknown_resource(event.read_event.resource)
            \/ is_temporary_table(event.read_event.resource,
                                  {temp_table_dataset_prefix})
         THEN {}
         ELSE 1 .. (1 + Len(event.read_event.fieldsRead))
    ELSE IF HasQuery(event) /\ event.query_event.job_name # ""
            /\ ~StoreRaises(event)
    THEN IF hash_collision(md5(Truncate(event.query_event.query)),
                           Truncate(event.query_event.query))
         THEN {2}
         ELSE {1, 2}
    ELSE {}

\* _store_usage_event up to its write number point, which raises: what was
\* written before stays written
_store_usage_event_failing(event, point) ==
    IF HasRead(event)
    THEN LET key == uuid4_row(read_events) IN
         /\ IF point = 1
            THEN UNCHANGED <<read_events, column_accesses>>
            ELSE /\ read_events' = Put(read_events, key, event.read_event)
                 /\ column_accesses' =
                       StoreFields(column_accesses, key,
                                   SubSeq(event.read_event.fieldsRead,
                                          1, point - 2))
         /\ report' = _report_error(report, "store-event", 1)
         /\ UNCHANGED <<query_events, queries, uuid_to_query>>
    ELSE LET query == Truncate(event.query_event.query)
             query_hash == md5(query)
         IN
         IF hash_collision(query_hash, query)
         THEN \E key \in uuid4(DOMAIN uuid_to_query) :
              /\ uuid_to_query' = Put(uuid_to_query, key, query)
              /\ report' = _report_error(
                    [report EXCEPT !.num_usage_query_hash_collisions = @ + 1],
                    "store-event", 1)
              /\ UNCHANGED store
         ELSE /\ queries' = IF point = 1 THEN queries
                            ELSE Put(queries, query_hash, query)
              /\ report' = _report_error(report, "store-event", 1)
              /\ UNCHANGED <<read_events, column_accesses, query_events,
                             uuid_to_query>>

\* one iteration of the loop of _ingest_events in which a write to the
\* store raises: the exception is caught and reported under "store-event".
\* The consumed event is recorded with the write that failed.
IngestEventWriteFails(event) ==
    /\ UNCHANGED extraction
    /\ pc = "ingest"
    /\ \E point \in WritePoints(event) :
          /\ log' = Append(log, event @@ ("fault" :> point))
          /\ _store_usage_event_failing(event, point)
    /\ UNCHANGED <<pc, config, conn, operation_wus, usage_wus>>

\* the input stream ends; _run goes on to usage_state.create_indexes()
create_indexes ==
    /\ UNCHANGED extraction
    /\ pc = "ingest"
    /\ pc' = "indexed"
    /\ UNCHANGED <<log, config, conn, store, uuid_to_query, report,
                   operation_wus, usage_wus>>

(***************************************************************************)
(* String order of the store's collation (ORDER BY on text columns): the   *)
(* strings of the model in ascending order.                                *)
(***************************************************************************)
Lexicon ==
    <<"/", "_", "a@x.com", "b@x.com", "c1", "c2", "d", "j1", "j2",
      "t1", "t2", "u1">>

ord(s) == CHOOSE i \in 1 .. Len(Lexicon) : Lexicon[i] = s

\* lexicographic order of two sequences of strings
RECURSIVE SeqLess(_, _)
SeqLess(s, t) ==
    IF t = <<>> THEN FALSE
    ELSE IF s = <<>> THEN TRUE
    ELSE IF Head(s) = Head(t) THEN SeqLess(Tail(s), Tail(t))
    ELSE ord(Head(s)) < ord(Head(t))

\* a set of strings as a sequence in ascending order
RECURSIVE SortStrings(_)
SortStrings(S) ==
    IF S = {} THEN <<>>
    ELSE LET m == CHOOSE x \in S : \A y \in S : ord(x) <= ord(y)
         IN <<m>> \o SortStrings(S \ {m})

(***************************************************************************)
(* BigQueryUsageState.standalone_events                                    *)
(***************************************************************************)
\* SELECT r.value, q.value FROM read_events r
\*   LEFT JOIN query_events q ON r.name = q.key
JoinedEvent(key) ==
    LET read == read_events[key] IN
    IF read.jobName \in DOMAIN query_events
    THEN OfBoth(read, query_events[read.jobName])
    ELSE OfRead(read)

\* the filter on is_read left out of items_snapshot
is_read_never(q) == FALSE

\* the extra column is_read of query_events
is_read(q) == q.statementType \in {"SELECT"}

\* query_events.items_snapshot("NOT is_read")
RECURSIVE ItemsSnapshotNotIsRead(_)
ItemsSnapshotNotIsRead(jobs) ==
    IF jobs = <<>> THEN <<>>
    ELSE IF is_read(query_events[Head(jobs)])
         THEN ItemsSnapshotNotIsRead(Tail(jobs))
         ELSE <<OfQuery(query_events[Head(jobs)])>>
              \o ItemsSnapshotNotIsRead(Tail(jobs))

standalone_events ==
    [i \in 1 .. Cardinality(DOMAIN read_events) |-> JoinedEvent(i)]
    \o ItemsSnapshotNotIsRead(SortStrings(DOMAIN query_events))

(***************************************************************************)
(* The operational pass.                                                   *)
(***************************************************************************)
CreateTypes ==
    {"CREATE", "CREATE_TABLE_AS_SELECT", "CREATE_EXTERNAL_TABLE",
     "CREATE_SNAPSHOT_TABLE", "CREATE_VIEW", "CREATE_MATERIALIZED_VIEW",
     "CREATE_SCHEMA"}

DropTypes ==
    {"DROP_TABLE", "DROP_EXTERNAL_TABLE", "DROP_SNAPSHOT_TABLE", "DROP_VIEW",
     "DROP_MATERIALIZED_VIEW", "DROP_SCHEMA"}

AlterTypes ==
    {"ALTER_TABLE", "ALTER_VIEW", "ALTER_MATERIALIZED_VIEW", "ALTER_SCHEMA"}

\* the table with the four data-manipulation types only
OPERATION_STATEMENT_TYPES_dml ==
    [t \in {"INSERT", "UPDATE", "DELETE", "MERGE"} |->
        IF t = "MERGE" THEN "UPDATE" ELSE t]

OPERATION_STATEMENT_TYPES ==
    [t \in {"INSERT", "UPDATE", "DELETE", "MERGE"}
            \cup CreateTypes \cup DropTypes \cup AlterTypes |->
        CASE t = "INSERT" -> "INSERT"
          [] t = "UPDATE" -> "UPDATE"
          [] t = "DELETE" -> "DELETE"
          [] t = "MERGE" -> "UPDATE"
          [] t \in CreateTypes -> "CREATE"
          [] t \in DropTypes -> "DROP"
          [] t \in AlterTypes -> "ALTER"]

\* the custom category counted among the values of the table
WriteCategories_with_custom ==
    {OPERATION_STATEMENT_TYPES[t] : t \in DOMAIN OPERATION_STATEMENT_TYPES}
       \cup {"CUSTOM"}

\* OPERATION_STATEMENT_TYPES.values()
WriteCategories ==
    {OPERATION_STATEMENT_TYPES[t] : t \in DOMAIN OPERATION_STATEMENT_TYPES}

\* config.dataset_pattern / config.table_pattern: the default allow-all
_is_table_allowed(table_ref) == table_ref # NoTable

\* the declared destination taken also when a ReadEvent is present
_get_destination_table_query_first(event) ==
    IF HasQuery(event) /\ event.query_event.destinationTable # NoTable
    THEN event.query_event.destinationTable
    ELSE IF HasRead(event) THEN event.read_event.resource
    ELSE NoTable

_get_destination_table(event) ==
    IF ~HasRead(event) /\ HasQuery(event)
       /\ event.query_event.destinationTable # NoTable
    THEN event.query_event.destinationTable
    ELSE IF HasRead(event) THEN event.read_event.resource
    ELSE NoTable

\* OperationalDataMeta, or NoMeta for None
NoMeta ==
    [statement_type |-> None, custom_type |-> None,
     last_updated_timestamp |-> -1, actor_email |-> None]

\* the write classification not suppressed by an accompanying ReadEvent
_extract_operational_meta_unsuppressed(event) ==
    IF ~HasQuery(event) /\ HasRead(event)
    THEN [statement_type |-> "CUSTOM", custom_type |-> "CUSTOM_READ",
          last_updated_timestamp |-> event.read_event.timestamp * 1000,
          actor_email |-> event.read_event.actor_email]
    ELSE IF HasQuery(event)
    THEN IF event.query_event.statementType \in DOMAIN OPERATION_STATEMENT_TYPES
         THEN [statement_type |->
                  OPERATION_STATEMENT_TYPES[event.query_event.statementType],
               custom_type |-> None,
               last_updated_timestamp |-> event.query_event.timestamp * 1000,
               actor_email |-> event.query_event.actor_email]
         ELSE [statement_type |-> "CUSTOM",
               custom_type |-> event.query_event.statementType,
               last_updated_timestamp |-> event.query_event.timestamp * 1000,
               actor_email |-> event.query_event.actor_email]
    ELSE NoMeta

\* every event with a ReadEvent classified as a queryless read
_extract_operational_meta_read_first(event) ==
    IF HasRead(event)
    THEN [statement_type |-> "CUSTOM", custom_type |-> "CUSTOM_READ",
          last_updated_timestamp |-> event.read_event.timestamp * 1000,
          actor_email |-> event.read_event.actor_email]
    ELSE IF HasQuery(event)
    THEN IF event.query_event.statementType \in DOMAIN OPERATION_STATEMENT_TYPES
         THEN [statement_type |->
                  OPERATION_STATEMENT_TYPES[event.query_event.statementType],
               custom_type |-> None,
               last_updated_timestamp |-> event.query_event.timestamp * 1000,
               actor_email |-> event.query_event.actor_email]
         ELSE [statement_type |-> "CUSTOM",
               custom_type |-> event.query_event.statementType,
               last_updated_timestamp |-> event.query_event.timestamp * 1000,
               actor_email |-> event.query_event.actor_email]
    ELSE NoMeta

_extract_operational_meta(event) ==
    IF ~HasQuery(event) /\ HasRead(event)
    THEN [statement_type |-> "CUSTOM", custom_type |-> "CUSTOM_READ",
          last_updated_timestamp |-> event.read_event.timestamp * 1000,
          actor_email |-> event.read_event.actor_email]
    ELSE IF HasQuery(event)
    THEN IF event.query_event.statementType \in DOMAIN OPERATION_STATEMENT_TYPES
            /\ ~HasRead(event)
         THEN [statement_type |->
                  OPERATION_STATEMENT_TYPES[event.query_event.statementType],
               custom_type |-> None,
               last_updated_timestamp |-> event.query_event.timestamp * 1000,
               actor_email |-> event.query_event.actor_email]
         ELSE [statement_type |-> "CUSTOM",
               custom_type |-> event.query_event.statementType,
               last_updated_timestamp |-> event.query_event.timestamp * 1000,
               actor_email |-> event.query_event.actor_email]
    ELSE NoMeta

_create_operational_custom_properties(event) ==
    IF ~config.include_read_operational_stats THEN <<>>
    ELSE LET p1 == IF HasQuery(event) /\ event.query_event.job_name # ""
                   THEN Put(<<>>, "sessionId", event.query_event.job_name)
                   ELSE <<>>
             p2 == IF HasQuery(event)
                   THEN Put(p1, "text", event.query_event.query)
                   ELSE p1
             p3 == IF HasRead(event) /\ event.read_event.fieldsRead # <<>>
                   THEN Put(p2, "fieldsRead", event.read_event.fieldsRead)
                   ELSE p2
         IN p3

\* the result of _create_operation_workunit: the workunit (wu = <<w>>) or
\* None (wu = <<>>), whether num_usage_operations_dropped was counted, and
\* whether the call raised: operational_meta.actor_email.split("@") raises
\* AttributeError for an event that carries no actor.
\* The field event of a workunit records the correlated event it is made of.
_create_operation_workunit(event) ==
    LET destination_table == _get_destination_table(event)
        operational_meta == _extract_operational_meta(event)
    IN
    IF ~HasRead(event) /\ ~HasQuery(event)
    THEN [wu |-> <<>>, dropped |-> FALSE, raised |-> FALSE]
    ELSE IF destination_table = NoTable
    THEN [wu |-> <<>>, dropped |-> FALSE, raised |-> FALSE]
    ELSE IF ~_is_table_allowed(destination_table)
            \/ Str(destination_table) \notin table_refs
    THEN [wu |-> <<>>, dropped |-> TRUE, raised |-> FALSE]
    ELSE IF operational_meta = NoMeta
    THEN [wu |-> <<>>, dropped |-> FALSE, raised |-> FALSE]
    ELSE IF ~config.include_read_operational_stats
            /\ operational_meta.statement_type \notin WriteCategories
    THEN [wu |-> <<>>, dropped |-> FALSE, raised |-> FALSE]
    ELSE IF operational_meta.actor_email = None
    THEN [wu |-> <<>>, dropped |-> FALSE, raised |-> TRUE]
    ELSE [wu |-> << [entityUrn |-> destination_table,
                     lastUpdatedTimestamp |->
                        operational_meta.last_updated_timestamp,
                     actor |-> operational_meta.actor_email,
                     operationType |-> operational_meta.statement_type,
                     customOperationType |-> operational_meta.custom_type,
                     customProperties |->
                        _create_operational_custom_properties(event),
                     event |-> event] >>,
          dropped |-> FALSE, raised |-> FALSE]

\* the loop ended at the first correlated event that raises
RECURSIVE OperationWorkunits_abort(_)
OperationWorkunits_abort(events) ==
    IF events = <<>> THEN <<>>
    ELSE IF _create_operation_workunit(Head(events)).raised THEN <<>>
    ELSE _create_operation_workunit(Head(events)).wu
         \o OperationWorkunits_abort(Tail(events))
\* the workunits yielded for a sequence of correlated events, in order
RECURSIVE OperationWorkunits(_)
OperationWorkunits(events) ==
    IF events = <<>> THEN <<>>
    ELSE _create_operation_workunit(Head(events)).wu
         \o OperationWorkunits(Tail(events))

RECURSIVE OperationsDropped(_)
OperationsDropped(events) ==
    IF events = <<>> THEN 0
    ELSE (IF _create_operation_workunit(Head(events)).dropped THEN 1 ELSE 0)
         + OperationsDropped(Tail(events))

\* the calls that raise are counted under "operation-workunit"
RECURSIVE OperationsRaised(_)
OperationsRaised(events) ==
    IF events = <<>> THEN 0
    ELSE (IF _create_operation_workunit(Head(events)).raised THEN 1 ELSE 0)
         + OperationsRaised(Tail(events))

\* the report after the loop of _generate_operational_workunits has
\* processed the correlated events
OperationalReport(events) ==
    _report_error(
        [report EXCEPT
            !.num_operational_stats_workunits_emitted =
                @ + Len(OperationWorkunits(events)),
            !.num_usage_operations_dropped = @ + OperationsDropped(events)],
        "operation-workunit", OperationsRaised(events))

\* _run: if include_operational_stats, _generate_operational_workunits
_generate_operational_workunits ==
    /\ UNCHANGED extraction
    /\ pc = "indexed"
    /\ pc' = "operational"
    /\ IF config.include_operational_stats
       THEN /\ operation_wus' = OperationWorkunits(standalone_events)
            /\ report' = OperationalReport(standalone_events)
       ELSE UNCHANGED <<operation_wus, report>>
    /\ UNCHANGED <<log, config, conn, store, uuid_to_query, usage_wus>>

(***************************************************************************)
(* BigQueryUsageState.usage_statistics_query and usage_statistics          *)
(***************************************************************************)
\* the extra columns timestamp and resource of a read_events row
GroupOf(key) ==
    <<get_time_bucket(read_events[key].timestamp),
      Str(read_events[key].resource)>>

\* read_events r INNER JOIN query_events q ON r.name = q.key
JoinedKeys ==
    {key \in DOMAIN read_events :
        read_events[key].jobName \in DOMAIN query_events}

\* the extra column query of the query_events row joined to a read
QueryOf(key) == query_events[read_events[key].jobName].query

\* the groups of all reads, joined to a QueryEvent or not
Groups_all == {GroupOf(key) : key \in DOMAIN read_events}

\* subquery a: GROUP BY r.timestamp, r.resource over the joined rows
Groups =={GroupOf(key) : key \in JoinedKeys}

\* the reads counted whether or not a QueryEvent is joined to them
query_count_all(g) ==
    Cardinality({key \in DOMAIN read_events : GroupOf(key) = g})

\* COUNT(q.query) over the joined rows of the group
query_count(g) == Cardinality({key \in JoinedKeys : GroupOf(key) = g})

\* the rows ordered by value alone
RowBefore_by_value(x, y) == x.k < y.k

\* ORDER BY count DESC, value: rows [value, count, k], k the sort key of value
RowBefore(x, y) ==
    \/ x.count > y.count
    \/ x.count = y.count /\ x.k < y.k

RECURSIVE SortRows(_)
SortRows(S) ==
    IF S = {} THEN <<>>
    ELSE LET m == CHOOSE x \in S : \A y \in S \ {x} : RowBefore(x, y)
         IN <<m>> \o SortRows(S \ {m})

\* json_group_array(json_array(value, count))
FreqList(rows) == [i \in 1 .. Len(rows) |-> <<rows[i].value, rows[i].count>>]

\* inner subquery of b: GROUP BY r.timestamp, r.resource, q.query
QueryRows ==
    { [group |-> GroupOf(key), value |-> QueryOf(key), k |-> QueryOf(key),
       count |-> Cardinality({o \in JoinedKeys :
                     GroupOf(o) = GroupOf(key) /\ QueryOf(o) = QueryOf(key)})]
      : key \in JoinedKeys }

\* PARTITION BY r.timestamp, r.resource, q.query
SamePartition(x, y) == x.group = y.group /\ x.value = y.value

\* ROW_NUMBER() OVER (PARTITION BY ... ORDER BY COUNT(r.key) DESC, q.query)
rank(row) ==
    1 + Cardinality({o \in QueryRows :
                        SamePartition(o, row) /\ RowBefore(o, row)})

\* subquery b without the filter on rank
query_freq_uncapped(g, top_n) ==
    FreqList(SortRows({row \in QueryRows : row.group = g}))

\* subquery b
query_freq(g, top_n) ==
    FreqList(SortRows({row \in QueryRows :
                          row.group = g /\ rank(row) <= top_n}))

\* the rows of the actors taken over the reads joined to a QueryEvent only
UserRows_joined(g) ==
    { [value |-> read_events[key].actor_email,
       k |-> ord(read_events[key].actor_email),
       count |-> Cardinality({o \in JoinedKeys :
                     /\ GroupOf(o) = g
                     /\ read_events[o].actor_email
                           = read_events[key].actor_email})]
      : key \in {o \in JoinedKeys : GroupOf(o) = g} }

\* subquery c: all read_events rows, GROUP BY r.timestamp, r.resource, r.user
UserRows(g) ==
    { [value |-> read_events[key].actor_email,
       k |-> ord(read_events[key].actor_email),
       count |-> Cardinality({o \in DOMAIN read_events :
                     /\ GroupOf(o) = g
                     /\ read_events[o].actor_email
                           = read_events[key].actor_email})]
      : key \in {o \in DOMAIN read_events : GroupOf(o) = g} }

user_freq(g) == FreqList(SortRows(UserRows(g)))

\* subquery d: read_events r INNER JOIN column_accesses c
\*   ON r.key = c.read_event, GROUP BY r.timestamp, r.resource, c.field
ColumnJoin(g) ==
    {c \in DOMAIN column_accesses :
        /\ column_accesses[c][1] \in DOMAIN read_events
        /\ GroupOf(column_accesses[c][1]) = g}

ColumnRows(g) ==
    { [value |-> column_accesses[c][2],
       k |-> ord(column_accesses[c][2]),
       count |-> Cardinality({o \in ColumnJoin(g) :
                     column_accesses[o][2] = column_accesses[c][2]})]
      : c \in ColumnJoin(g) }

column_freq(g) == FreqList(SortRows(ColumnRows(g)))

\* ORDER BY a.timestamp, a.resource
GroupBefore(g, h) ==
    \/ g[1] < h[1]
    \/ g[1] = h[1] /\ SeqLess(g[2], h[2])

RECURSIVE SortGroups(_)
SortGroups(S) ==
    IF S = {} THEN <<>>
    ELSE LET m == CHOOSE g \in S : \A h \in S \ {g} : GroupBefore(g, h)
         IN <<m>> \o SortGroups(S \ {m})

UsageStatistic(g, top_n) ==
    [timestamp |-> g[1], resource |-> g[2],
     query_count |-> query_count(g),
     query_freq |-> query_freq(g, top_n),
     user_freq |-> user_freq(g),
     column_freq |-> column_freq(g)]

usage_statistics(top_n) ==
    LET groups == SortGroups(Groups)
    IN [i \in 1 .. Len(groups) |-> UsageStatistic(groups[i], top_n)]

(***************************************************************************)
(* The usage pass: _generate_usage_workunits                               *)
(***************************************************************************)
TopN ==
    IF config.include_top_n_queries THEN config.top_n_queries ELSE 0

\* the default evaluated only for a reference that is not a surrogate key
ResolveRaises_lazy(entry) ==
    \E i \in 1 .. Len(entry.query_freq) :
        /\ entry.query_freq[i][1] \notin DOMAIN uuid_to_query
        /\ entry.query_freq[i][1] \notin DOMAIN queries

\* self.uuid_to_query.get(query_hash, usage_state.queries[query_hash]): the
\* default is evaluated first, so a reference that is not a key of queries
\* raises KeyError
ResolveRaises(entry) ==
    \E i \in 1 .. Len(entry.query_freq) :
        entry.query_freq[i][1] \notin DOMAIN queries

Resolve(query_hash) == Get(uuid_to_query, query_hash, queries[query_hash])

\* make_usage_workunit(...) of one entry
UsageWorkunit(entry) ==
    [entry EXCEPT !.query_freq =
        [i \in 1 .. Len(entry.query_freq) |->
            <<Resolve(entry.query_freq[i][1]), entry.query_freq[i][2]>>]]

\* the pass ended at the first entry that raises
RECURSIVE UsageWorkunits_abort(_)
UsageWorkunits_abort(entries) ==
    IF entries = <<>> THEN <<>>
    ELSE IF ResolveRaises(Head(entries)) THEN <<>>
    ELSE <<UsageWorkunit(Head(entries))>> \o UsageWorkunits_abort(Tail(entries))

\* the workunits yielded for a sequence of entries, in order; an entry that
\* raises yields nothing and is counted under "statistics-workunit"
RECURSIVE UsageWorkunits(_)
UsageWorkunits(entries) ==
    IF entries = <<>> THEN <<>>
    ELSE (IF ResolveRaises(Head(entries)) THEN <<>>
          ELSE <<UsageWorkunit(Head(entries))>>)
         \o UsageWorkunits(Tail(entries))

\* the report after the loop of _generate_usage_workunits has processed
\* the entries
UsageReport(entries) ==
    _report_error(
        [report EXCEPT
            !.num_usage_workunits_emitted = @ + Len(UsageWorkunits(entries))],
        "statistics-workunit", Len(entries) - Len(UsageWorkunits(entries)))

\* the usage pass started before the operational pass
_generate_usage_workunits_early ==
    /\ UNCHANGED extraction
    /\ pc = "indexed"
    /\ pc' = "usage"
    /\ usage_wus' = UsageWorkunits(usage_statistics(TopN))
    /\ report' = UsageReport(usage_statistics(TopN))
    /\ UNCHANGED <<log, config, conn, store, uuid_to_query, operation_wus>>

_generate_usage_workunits ==
    /\ UNCHANGED extraction
    /\ pc = "operational"
    /\ pc' = "usage"
    /\ usage_wus' = UsageWorkunits(usage_statistics(TopN))
    /\ report' = UsageReport(usage_statistics(TopN))
    /\ UNCHANGED <<log, config, conn, store, uuid_to_query, operation_wus>>

\* the connection of the store left open
close_skipped(c) == c

\* BigQueryUsageState.close: self.conn.close()
usage_state_close(c) == "closed"

\* leaving the with block of _run at its end: BigQueryUsageState.close, and
\* _run returns
close ==
    /\ UNCHANGED extraction
    /\ pc = "usage"
    /\ pc' = "closed"
    /\ conn' = usage_state_close(conn)
    /\ UNCHANGED <<log, config, store, uuid_to_query, report,
                   operation_wus, usage_wus>>

(***************************************************************************)
(* Exceptions that leave the with block of _run: the store is closed on    *)
(* the way out, the handler of _run records the warning "usage-ingestion"  *)
(* and _run returns.  The place of the failure is added to the record of   *)
(* the consumed input.                                                     *)
(***************************************************************************)
\* the exception swallowed without a trace in the report
_run_except_silent(rep) == rep

\* except Exception as e: self.report.report_warning("usage-ingestion", ...)
_run_except(rep) == report_warning(rep, <<"usage-", "ingestion">>)

\* the input iterator or create_indexes raises (pc = "ingest"), or
\* report_disk_usage raises (pc = "indexed", pc = "usage")
_run_raises ==
    /\ UNCHANGED extraction
    /\ pc \in {"ingest", "indexed", "usage"}
    /\ pc' = "closed"
    /\ conn' = usage_state_close(conn)
    /\ report' = _run_except(report)
    /\ log' = Append(log, [fatal |-> pc])
    /\ UNCHANGED <<config, store, uuid_to_query, operation_wus, usage_wus>>

\* the iterator of standalone_events raises after n correlated events
_generate_operational_workunits_raises ==
    /\ UNCHANGED extraction
    /\ pc = "indexed"
    /\ config.include_operational_stats
    /\ \E n \in 0 .. Len(standalone_events) :
          LET events == SubSeq(standalone_events, 1, n) IN
          /\ operation_wus' = OperationWorkunits(events)
          /\ report' = _run_except(OperationalReport(events))
    /\ pc' = "closed"
    /\ conn' = usage_state_close(conn)
    /\ log' = Append(log, [fatal |-> "operational"])
    /\ UNCHANGED <<config, store, uuid_to_query, usage_wus>>

\* the iterator of usage_statistics raises after n entries
_generate_usage_workunits_raises ==
    /\ UNCHANGED extraction
    /\ pc = "operational"
    /\ \E n \in 0 .. Len(usage_statistics(TopN)) :
          LET entries == SubSeq(usage_statistics(TopN), 1, n) IN
          /\ usage_wus' = UsageWorkunits(entries)
          /\ report' = _run_except(UsageReport(entries))
    /\ pc' = "closed"
    /\ conn' = usage_state_close(conn)
    /\ log' = Append(log, [fatal |-> "usage"])
    /\ UNCHANGED <<config, store, uuid_to_query, operation_wus>>

(***************************************************************************)
(* Specifications.                                                         *)
(***************************************************************************)
Run ==
    \/ create_indexes
    \/ _generate_operational_workunits
    \/ _generate_usage_workunits
    \/ close

Init == InitWith(Configs)

Next ==
    \/ \E event \in Events : Len(log) < MaxEvents /\ IngestEvent(event)
    \/ Run

Spec == Init /\ [][Next]_vars

\* the runs over the colliding queries and their reads
InitCollide == InitWith(CollideConfigs)

NextCollide ==
    \/ \E event \in CollideEvents :
          Len(log) < MaxCollideEvents /\ IngestEvent(event)
    \/ Run

SpecCollide == InitCollide /\ [][NextCollide]_vars

\* A second run over the same input, for comparison with the first: uuid4
\* gives each run surrogate keys of its own, so the store the second run
\* leaves is the store of the first with its surrogate keys replaced one for
\* one.  usage_wus keeps the records the first run emitted, and the record of
\* the consumed input notes the repetition.
Rerun ==
    /\ UNCHANGED extraction
    /\ pc = "usage"
    /\ \A i \in 1 .. Len(log) : "rerun" \notin DOMAIN log[i]
    /\ \E other \in [DOMAIN uuid_to_query -> UUIDS] :
          /\ \A x \in DOMAIN uuid_to_query, y \in DOMAIN uuid_to_query :
                other[x] = other[y] => x = y
          /\ uuid_to_query' =
                [key \in {other[x] : x \in DOMAIN uuid_to_query} |->
                    uuid_to_query[CHOOSE x \in DOMAIN uuid_to_query :
                                     other[x] = key]]
          /\ query_events' =
                [job \in DOMAIN query_events |->
                    IF query_events[job].query \in DOMAIN uuid_to_query
                    THEN [query_events[job] EXCEPT !.query = other[@]]
                    ELSE query_events[job]]
    /\ log' = Append(log, [rerun |-> TRUE])
    /\ UNCHANGED <<pc, config, conn, read_events, column_accesses,
                   queries, report, operation_wus, usage_wus>>

\* the runs over the colliding queries, and their repetition
NextRerun ==
    \/ NextCollide
    \/ Rerun

SpecRerun == InitCollide /\ [][NextRerun]_vars

\* longest input stream of the specification over the filtered reads
MaxFilterEvents == 3

\* reads inside, at the edges of and outside the window, of known, unknown
\* and temporary tables, and the query of one of their jobs
FilterEvents ==
    { OfRead(ReadEvent(T1, 0, "a@x.com", <<"c1">>, "j1")),
      OfRead(ReadEvent(T1, 3, "b@x.com", <<>>, None)),
      OfRead(ReadEvent(T1, 4, "a@x.com", <<"c1">>, "j1")),
      OfRead(ReadEvent(T1, -1, "a@x.com", <<"c1">>, "j1")),
      OfRead(ReadEvent(U1, 0, "a@x.com", <<"c1">>, "j1")),
      OfRead(ReadEvent(U1, 4, "a@x.com", <<"c1">>, "j1")),
      OfRead(ReadEvent(TMP, 0, "a@x.com", <<"c1">>, "j1")),
      OfQuery(QueryEvent("j1", TextA, "SELECT", NoTable, "a@x.com", 0)) }

FilterConfigs == { Config(2, TRUE, TRUE, TRUE) }

InitFilter == InitWith(FilterConfigs)

NextFilter ==
    \/ \E event \in FilterEvents :
          Len(log) < MaxFilterEvents /\ IngestEvent(event)
    \/ Run

SpecFilter == InitFilter /\ [][NextFilter]_vars

\* longest input stream of the specification with failures
MaxFailEvents == 3

\* a read with two fields, a QueryEvent of its job that carries no actor,
\* a QueryEvent of another job whose text collides with the first, and a
\* QueryEvent that carries no text
FailEvents ==
    { OfRead(ReadEvent(T1, 0, "a@x.com", <<"c1", "c2">>, "j1")),
      OfQuery(QueryEvent("j1", TextA, "INSERT", T1, None, 0)),
      OfQuery(QueryEvent("j2", TextB, "INSERT", T2, "b@x.com", 1)),
      OfQuery(QueryEvent("j2", NoQuery, "SELECT", NoTable, "b@x.com", 1)) }

FailConfigs ==
    { Config(2, TRUE, TRUE, TRUE),
      Config(1, TRUE, FALSE, FALSE) }

InitFail == InitWith(FailConfigs)

RunRaises ==
    \/ _run_raises
    \/ _generate_operational_workunits_raises
    \/ _generate_usage_workunits_raises

\* the runs in which writes to the store, single events and the passes may
\* fail
NextFail ==
    \/ \E event \in FailEvents :
          Len(log) < MaxFailEvents /\ IngestEvent(event)
    \/ \E event \in FailEvents :
          Len(log) < MaxFailEvents /\ IngestEventWriteFails(event)
    \/ Run
    \/ RunRaises

SpecFail == InitFail /\ [][NextFail]_vars

\* longest input stream of the specification over several groups
MaxGroupEvents == 4

\* reads of two resources in two buckets by one job, a read without job
\* name and a read of a job without QueryEvent in a third group, and the
\* query of the job
GroupEvents ==
    { OfRead(ReadEvent(T1, 0, "a@x.com", <<"c1">>, "j1")),
      OfRead(ReadEvent(T2, 0, "b@x.com", <<"c1", "c2">>, "j1")),
      OfRead(ReadEvent(T1, 2, "a@x.com", <<"c1">>, "j1")),
      OfRead(ReadEvent(T2, 2, "a@x.com", <<>>, None)),
      OfRead(ReadEvent(T2, 3, "b@x.com", <<"c1">>, "j2")),
      OfQuery(QueryEvent("j1", TextA, "SELECT", NoTable, "a@x.com", 0)) }

\* top-N 2, top-N 0, and top-N queries not included
GroupConfigs ==
    { Config(2, TRUE, TRUE, TRUE),
      Config(0, TRUE, FALSE, FALSE),
      Config(2, FALSE, TRUE, FALSE) }

InitGroup == InitWith(GroupConfigs)

NextGroup ==
    \/ \E event \in GroupEvents :
          Len(log) < MaxGroupEvents /\ IngestEvent(event)
    \/ Run

SpecGroup == InitGroup /\ [][NextGroup]_vars

\* longest input stream of the specification over the statement types
MaxTypeEvents == 2

\* the statement types of OPERATION_STATEMENT_TYPES, the read type, and two
\* types the table does not hold
StatementTypes ==
    {"INSERT", "UPDATE", "DELETE", "MERGE"}
       \cup CreateTypes \cup DropTypes \cup AlterTypes
       \cup {"SELECT", "TRUNCATE_TABLE", "CREATE_FUNCTION"}

\* a QueryEvent of each statement type with a declared destination, a
\* QueryEvent of a second job, and a read of the first job
TypeEvents ==
    { OfQuery(QueryEvent("j1", TextA, t, T1, "b@x.com", 1))
         : t \in StatementTypes }
    \cup { OfQuery(QueryEvent("j2", TextC, "MERGE", T2, "a@x.com", 2)),
           OfRead(ReadEvent(T1, 0, "a@x.com", <<"c1">>, "j1")) }

TypeConfigs ==
    { Config(2, TRUE, TRUE, TRUE),
      Config(2, TRUE, TRUE, FALSE) }

InitType == InitWith(TypeConfigs)

NextType ==
    \/ \E event \in TypeEvents :
          Len(log) < MaxTypeEvents /\ IngestEvent(event)
    \/ Run

SpecType == InitType /\ [][NextType]_vars

(***************************************************************************)
(* The event stream: _get_usage_events fetches the projects one after the  *)
(* other and yields the events _get_parsed_bigquery_log_events parses from *)
(* the log entries of each.                                                *)
(***************************************************************************)
\* most log entries fetched for one project
MaxEntries == 1

\* the argument of _get_usage_events: three projects, or ["*"] with
\* use_exported_bigquery_audit_metadata
ProjectLists == { <<"p1", "p2", "p3">>, <<"*">> }

\* a log entry, by what parse_fn makes of it: an AuditEvent, None, or an
\* exception
LogEntries ==
    { [parsed |-> "event",
       event |-> OfRead(ReadEvent(T1, 0, "a@x.com", <<"c1">>, "j1"))],
      [parsed |-> "none"],
      [parsed |-> "raises"] }

\* f"log-parse-{project_id}"
LogParseLabel(project_id) ==
    CASE project_id = "p1" -> "log-parse-p1"
      [] project_id = "p2" -> "log-parse-p2"
      [] project_id = "p3" -> "log-parse-p3"
      [] project_id = "*" -> "log-parse-*"

\* self._report_error(label, e, group="usage-log-parse")
_report_error_group(rep, label) ==
    report_warning([rep EXCEPT !.usage_error_count[label] = @ + 1],
                   <<"usage-", "log-parse">>)

\* the loop of _get_usage_events is at a project
Fetching == project_idx <= Len(projects)

\* one turn of the loop of _get_parsed_bigquery_log_events over the entries
\* of the current project: the event parsed from the entry is yielded; an
\* entry that parses to None is passed over; an entry at which parse_fn
\* raises is reported under log-parse-<project> and passed over
_get_parsed_bigquery_log_events(entry) ==
    /\ Fetching
    /\ entries_fetched < MaxEntries
    /\ entries_fetched' = entries_fetched + 1
    /\ yielded' =
          IF entry.parsed = "event"
          THEN Append(yielded, [project_id |-> projects[project_idx],
                                event |-> entry.event])
          ELSE yielded
    /\ report' =
          IF entry.parsed = "raises"
          THEN _report_error_group(report,
                                   LogParseLabel(projects[project_idx]))
          ELSE report
    /\ UNCHANGED <<projects, project_idx, pc, log, config, conn, store,
                   uuid_to_query, operation_wus, usage_wus>>

\* the entries of the current project are exhausted:
\* usage_extraction_sec[project_id] is set and the loop goes on
_get_usage_events_project_done ==
    /\ Fetching
    /\ report' = [report EXCEPT
          !.usage_extraction_sec = @ \cup {projects[project_idx]}]
    /\ project_idx' = project_idx + 1
    /\ entries_fetched' = 0
    /\ UNCHANGED <<projects, yielded, pc, log, config, conn, store,
                   uuid_to_query, operation_wus, usage_wus>>

\* the exception leaves _get_usage_events: the stream ends with it
_get_usage_events_raises ==
    /\ Fetching
    /\ project_idx' = Len(projects) + 1
    /\ entries_fetched' = 0
    /\ UNCHANGED <<projects, yielded, report, pc, log, config, conn, store,
                   uuid_to_query, operation_wus, usage_wus>>

\* making the client or fetching the next entry of the current project
\* raises: except Exception appends the project to usage_failed_extraction
\* and records the warning usage-extraction-<project>; then
\* usage_extraction_sec[project_id] is set and the loop goes on
_get_usage_events_except ==
    /\ Fetching
    /\ report' = [report_warning(report, <<"usage-extraction-",
                                           projects[project_idx]>>) EXCEPT
          !.usage_failed_extraction = Append(@, projects[project_idx]),
          !.usage_extraction_sec = @ \cup {projects[project_idx]}]
    /\ project_idx' = project_idx + 1
    /\ entries_fetched' = 0
    /\ UNCHANGED <<projects, yielded, pc, log, config, conn, store,
                   uuid_to_query, operation_wus, usage_wus>>

FetchConfigs == { Config(2, TRUE, TRUE, TRUE) }

InitFetch ==
    /\ InitState(FetchConfigs)
    /\ projects \in ProjectLists
    /\ project_idx = 1
    /\ entries_fetched = 0
    /\ yielded = <<>>

NextFetch ==
    \/ \E entry \in LogEntries : _get_parsed_bigquery_log_events(entry)
    \/ _get_usage_events_project_done
    \/ _get_usage_events_except

\* the consumer of the stream, the loop of _ingest_events, asks for the next
\* event until the stream ends
SpecFetch == InitFetch /\ [][NextFetch]_vars /\ WF_vars(NextFetch)

(***************************************************************************)
(* What was ingested, read from the consumed input.                        *)
(***************************************************************************)
Max(S) == CHOOSE x \in S : \A y \in S : y <= x

\* positions of the input at which a QueryEvent of job j was stored
QueryIdx(j) ==
    {i \in 1 .. Len(log) :
        HasQuery(log[i]) /\ j # "" /\ log[i].query_event.job_name = j}

SeenJobs ==
    {log[i].query_event.job_name :
        i \in {n \in 1 .. Len(log) :
                  HasQuery(log[n]) /\ log[n].query_event.job_name # ""}}

\* the last QueryEvent ingested with job identifier j
LastQueryEvent(j) == log[Max(QueryIdx(j))].query_event

\* the truncated text the stored QueryEvent of job j carried
IngestedText(j) == Truncate(LastQueryEvent(j).query)

\* the literal text a query reference stands for
TextOfRef(ref) ==
    IF ref \in DOMAIN uuid_to_query THEN uuid_to_query[ref]
    ELSE IF ref \in DOMAIN queries THEN queries[ref]
    ELSE <<>>

\* stored reads joined to the stored QueryEvent of job j
ReadsOfJob(j) == {key \in DOMAIN read_events : read_events[key].jobName = j}

\* the usage workunits carry, for group g, the text with the count of the
\* reads of g joined to a QueryEvent of that text
Reported(g, text) ==
    \E i \in 1 .. Len(usage_wus) :
        /\ usage_wus[i].timestamp = g[1]
        /\ usage_wus[i].resource = g[2]
        /\ \E n \in 1 .. Len(usage_wus[i].query_freq) :
              usage_wus[i].query_freq[n] =
                 <<text,
                   Cardinality({o \in JoinedKeys :
                      /\ GroupOf(o) = g
                      /\ IngestedText(read_events[o].jobName) = text})>>

(***************************************************************************)
(* C1: when two stored QueryEvents of distinct jobs carry distinct         *)
(* truncated texts with the same content hash and each is joined to a      *)
(* stored read, the usage workunits contain both texts, each with the      *)
(* count of the reads of its own QueryEvent (top-N large enough).          *)
(***************************************************************************)
C1_CollidingTextsReported ==
    (pc = "closed" /\ TopN >= 2) =>
        \A j1 \in DOMAIN query_events, j2 \in DOMAIN query_events :
            ( /\ j1 # j2
              /\ IngestedText(j1) # IngestedText(j2)
              /\ md5(IngestedText(j1)) = md5(IngestedText(j2))
              /\ ReadsOfJob(j1) # {}
              /\ ReadsOfJob(j2) # {} )
            => \A key \in ReadsOfJob(j1) :
                  Reported(GroupOf(key), IngestedText(j1))

(***************************************************************************)
(* C2: for top_n >= 1 every record of usage_statistics(top_n) has at most  *)
(* top_n entries in query_freq, and they are the query references of the   *)
(* (bucket, resource) with the highest read counts.                        *)
(***************************************************************************)
C2_AtMostTopN ==
    (pc \in {"usage", "closed"} /\ TopN >= 1) =>
        \A i \in 1 .. Len(usage_statistics(TopN)) :
            LET entry == usage_statistics(TopN)[i]
                listed == {entry.query_freq[n][1] :
                              n \in 1 .. Len(entry.query_freq)}
                rows == {row \in QueryRows :
                            row.group = <<entry.timestamp, entry.resource>>}
            IN /\ Len(entry.query_freq) <= TopN
               /\ \A row \in rows :
                     \/ row.value \in listed
                     \/ \A n \in 1 .. Len(entry.query_freq) :
                           entry.query_freq[n][2] >= row.count

(***************************************************************************)
(* The items of standalone_events.                                         *)
(***************************************************************************)
\* number of items of standalone_events equal to item
Occurrences(item) ==
    Cardinality({i \in 1 .. Len(standalone_events) :
                    standalone_events[i] = item})

\* the stored QueryEvent whose job identifier equals the read's job name
PairOfRead(key) ==
    IF \E j \in DOMAIN query_events : j = read_events[key].jobName
    THEN OfBoth(read_events[key], query_events[read_events[key].jobName])
    ELSE OfRead(read_events[key])

\* one item per stored read, paired with its QueryEvent if any
ReadItemsExact ==
    /\ \A key \in DOMAIN read_events :
          Occurrences(PairOfRead(key)) =
             Cardinality({o \in DOMAIN read_events :
                             PairOfRead(o) = PairOfRead(key)})
    /\ Cardinality({i \in 1 .. Len(standalone_events) :
                       HasRead(standalone_events[i])})
          = Cardinality(DOMAIN read_events)

\* every item without a read is a stored QueryEvent
QueryItemsStored ==
    \A i \in 1 .. Len(standalone_events) :
        ~HasRead(standalone_events[i]) =>
            \E j \in DOMAIN query_events :
                standalone_events[i] = OfQuery(query_events[j])

(***************************************************************************)
(* C3 as stated: on the store the operational pass reads,                  *)
(* standalone_events yields one item per stored read, paired with its      *)
(* QueryEvent if any, and a query-only item exactly for each stored        *)
(* QueryEvent that has no matching read.                                   *)
(***************************************************************************)
C3_QueryOnlyIffUnmatched ==
    pc = "operational" =>
    /\ ReadItemsExact
    /\ QueryItemsStored
    /\ \A j \in DOMAIN query_events :
          Occurrences(OfQuery(query_events[j])) =
             (IF ReadsOfJob(j) = {} THEN 1 ELSE 0)

(***************************************************************************)
(* C3 amended: on the store the operational pass reads,                    *)
(* standalone_events yields one item per stored read, paired with its      *)
(* QueryEvent if any, and a query-only item exactly for each stored        *)
(* QueryEvent whose statement type is not SELECT, whether or not a read    *)
(* matches it.                                                             *)
(***************************************************************************)
C3_QueryOnlyIffNotSelect ==
    pc = "operational" =>
    /\ ReadItemsExact
    /\ QueryItemsStored
    /\ \A j \in DOMAIN query_events :
          Occurrences(OfQuery(query_events[j])) =
             (IF query_events[j].statementType # "SELECT" THEN 1 ELSE 0)

\* a non-SELECT QueryEvent with a matching read and a SELECT QueryEvent
\* without one are in the store when the operational pass has run
C3_Witness ==
    /\ pc = "operational"
    /\ config.include_operational_stats
    /\ \E j \in DOMAIN query_events :
          query_events[j].statementType # "SELECT" /\ ReadsOfJob(j) # {}
    /\ \E j \in DOMAIN query_events :
          query_events[j].statementType = "SELECT" /\ ReadsOfJob(j) = {}

(***************************************************************************)
(* The operation workunits.                                                *)
(***************************************************************************)
OperationWus == {operation_wus[i] : i \in 1 .. Len(operation_wus)}

IsWrite(wu) == wu.operationType \in WriteCategories

(***************************************************************************)
(* C4 as stated: the operational pass never emits a write-category record  *)
(* for a stored QueryEvent that has a stored read of the same job.         *)
(***************************************************************************)
C4_NoWriteForQueryWithRead ==
    \A wu \in OperationWus :
        (IsWrite(wu) /\ HasQuery(wu.event)) =>
            ReadsOfJob(wu.event.query_event.job_name) = {}

(***************************************************************************)
(* C4 amended: the operational pass never emits a write-category record    *)
(* for a correlated pair that contains a ReadEvent; a write-category       *)
(* record comes only from a query-only item of a known write type.         *)
(***************************************************************************)
C4_NoWriteForPairWithRead ==
    \A wu \in OperationWus :
        /\ HasRead(wu.event) => ~IsWrite(wu)
        /\ IsWrite(wu) =>
              /\ HasQuery(wu.event)
              /\ wu.event.query_event.statementType
                    \in DOMAIN OPERATION_STATEMENT_TYPES

\* a pair of a read and an INSERT QueryEvent was emitted, and so was the
\* write record of the same QueryEvent alone
C4_Witness ==
    /\ \E wu \in OperationWus :
          /\ HasRead(wu.event) /\ HasQuery(wu.event)
          /\ wu.event.query_event.statementType = "INSERT"
    /\ \E wu \in OperationWus :
          /\ IsWrite(wu)
          /\ ReadsOfJob(wu.event.query_event.job_name) # {}

(***************************************************************************)
(* C5: a correlated pair of a ReadEvent and an INSERT QueryEvent.          *)
(***************************************************************************)
IsInsertPair(event) ==
    /\ HasRead(event)
    /\ HasQuery(event)
    /\ event.query_event.statementType = "INSERT"

InsertPairs ==
    {standalone_events[i] :
        i \in {n \in 1 .. Len(standalone_events) :
                  IsInsertPair(standalone_events[n])}}

\* C5 as stated: the classification of such a pair and its operation
\* record are of the generic read category, not INSERT.
C5_InsertPairIsRead ==
    /\ \A event \in InsertPairs :
          /\ _extract_operational_meta(event).statement_type = "CUSTOM"
          /\ _extract_operational_meta(event).custom_type = "CUSTOM_READ"
    /\ \A wu \in OperationWus :
          IsInsertPair(wu.event) =>
             /\ wu.operationType = "CUSTOM"
             /\ wu.customOperationType = "CUSTOM_READ"

\* C5 amended: the classification of such a pair is the custom category
\* carrying the raw statement type "INSERT" (not the write category INSERT,
\* not the generic read category CUSTOM_READ); its operation record carries
\* that classification and is emitted exactly when the extended read
\* properties (include_read_operational_stats) are enabled.
C5_InsertPairIsCustom ==
    /\ \A event \in InsertPairs :
          /\ _extract_operational_meta(event).statement_type = "CUSTOM"
          /\ _extract_operational_meta(event).custom_type = "INSERT"
    /\ \A wu \in OperationWus :
          IsInsertPair(wu.event) =>
             /\ wu.operationType = "CUSTOM"
             /\ wu.customOperationType = "INSERT"
    /\ (pc \notin {"ingest", "indexed"} /\ config.include_operational_stats)
          => \A event \in InsertPairs :
                (\E wu \in OperationWus : wu.event = event)
                    <=> config.include_read_operational_stats

\* the record of a pair with an INSERT QueryEvent was emitted
C5_Witness ==
    \E wu \in OperationWus :
        IsInsertPair(wu.event) /\ wu.customOperationType = "INSERT"

(***************************************************************************)
(* C6 as stated: whenever the QueryEvent of a correlated event declares a  *)
(* destination table, the record's destination is that table, with or      *)
(* without a ReadEvent; the read's resource is used only otherwise.        *)
(***************************************************************************)
C6_DeclaredDestinationWins ==
    \A wu \in OperationWus :
        IF HasQuery(wu.event)
           /\ wu.event.query_event.destinationTable # NoTable
        THEN wu.entityUrn = wu.event.query_event.destinationTable
        ELSE wu.entityUrn = wu.event.read_event.resource

(***************************************************************************)
(* C6 amended: the record's destination is the ReadEvent's resource        *)
(* whenever a ReadEvent is present, also when the QueryEvent declares a    *)
(* destination; it is the declared destination only for a query-only item. *)
(***************************************************************************)
C6_ReadResourceWins ==
    \A wu \in OperationWus :
        IF HasRead(wu.event)
        THEN wu.entityUrn = wu.event.read_event.resource
        ELSE /\ wu.event.query_event.destinationTable # NoTable
             /\ wu.entityUrn = wu.event.query_event.destinationTable

\* a record was emitted for a pair whose QueryEvent declares a destination
\* other than the read's resource, and one for a query-only item
C6_Witness ==
    /\ \E wu \in OperationWus :
          /\ HasRead(wu.event) /\ HasQuery(wu.event)
          /\ wu.event.query_event.destinationTable # NoTable
          /\ wu.event.query_event.destinationTable
                # wu.event.read_event.resource
    /\ \E wu \in OperationWus : ~HasRead(wu.event)

(***************************************************************************)
(* C7: every ReadEvent accepted by _store_usage_event has its own entry in *)
(* read_events: there are as many entries as accepted reads, and as many   *)
(* entries of each content as accepted reads of that content, so no        *)
(* accepted read overwrites or merges with an earlier one.                 *)
(***************************************************************************)
\* positions of the input holding a read that is inside the window, of a
\* known resource and not of a temporary table
AcceptedIdx ==
    {i \in 1 .. Len(log) :
        /\ HasRead(log[i])
        /\ start_time <= log[i].read_event.timestamp
        /\ log[i].read_event.timestamp < end_time
        /\ Str(log[i].read_event.resource) \in table_refs
        /\ ~startswith(log[i].read_event.resource.dataset,
                       temp_table_dataset_prefix)}

C7_ReadsKeptApart ==
    /\ Cardinality(DOMAIN read_events) = Cardinality(AcceptedIdx)
    /\ \A i \in AcceptedIdx :
          Cardinality({key \in DOMAIN read_events :
                          read_events[key] = log[i].read_event})
          = Cardinality({n \in AcceptedIdx :
                            log[n].read_event = log[i].read_event})

\* two reads of identical content were accepted and are both stored
C7_Witness ==
    \E i \in AcceptedIdx, n \in AcceptedIdx :
        /\ i < n
        /\ log[i] = log[n]
        /\ \E k1 \in DOMAIN read_events, k2 \in DOMAIN read_events :
              /\ k1 # k2
              /\ read_events[k1] = log[i].read_event
              /\ read_events[k2] = log[i].read_event

(***************************************************************************)
(* C8: query_events holds exactly one entry per distinct non-empty job     *)
(* identifier ingested, and the entry is the last QueryEvent ingested with *)
(* that identifier, its query text held through its query reference.       *)
(***************************************************************************)
C8_LatestQueryEventKept ==
    /\ DOMAIN query_events = SeenJobs
    /\ \A j \in DOMAIN query_events :
          /\ [query_events[j] EXCEPT !.query = IngestedText(j)]
                = [LastQueryEvent(j) EXCEPT !.query = IngestedText(j)]
          /\ TextOfRef(query_events[j].query) = IngestedText(j)

\* a job identifier was ingested twice with different QueryEvents, and
\* some QueryEvent was ingested twice
C8_Witness ==
    /\ \E j \in DOMAIN query_events :
          \E i \in QueryIdx(j), n \in QueryIdx(j) :
              i < n /\ log[i] # log[n]
    /\ \E j \in DOMAIN query_events :
          \E i \in QueryIdx(j), n \in QueryIdx(j) :
              i < n /\ log[i] = log[n]

(***************************************************************************)
(* C9: an entry of queries never changes once stored (it stays the first   *)
(* text stored under its hash); a QueryEvent whose text differs from the   *)
(* entry of its hash leaves queries as it is, is referenced by a key that  *)
(* was in neither mapping and now maps to its own text in uuid_to_query,   *)
(* and adds exactly one to num_usage_query_hash_collisions; any other      *)
(* step leaves that counter and uuid_to_query as they are.                 *)
(***************************************************************************)
C9_FirstTextKept ==
    [][ /\ \A h \in DOMAIN queries :
              h \in DOMAIN queries' /\ queries'[h] = queries[h]
        /\ IF /\ Len(log') = Len(log) + 1
              /\ HasQuery(log'[Len(log')])
              /\ log'[Len(log')].query_event.job_name # ""
              /\ md5(Truncate(log'[Len(log')].query_event.query))
                    \in DOMAIN queries
              /\ queries[md5(Truncate(log'[Len(log')].query_event.query))]
                    # Truncate(log'[Len(log')].query_event.query)
           THEN LET q == log'[Len(log')].query_event
                    ref == query_events'[q.job_name].query
                IN /\ queries' = queries
                   /\ ref \notin DOMAIN uuid_to_query
                   /\ ref \notin DOMAIN queries
                   /\ DOMAIN uuid_to_query' = DOMAIN uuid_to_query \cup {ref}
                   /\ uuid_to_query'[ref] = Truncate(q.query)
                   /\ \A u \in DOMAIN uuid_to_query :
                         uuid_to_query'[u] = uuid_to_query[u]
                   /\ report'.num_usage_query_hash_collisions
                         = report.num_usage_query_hash_collisions + 1
           ELSE /\ uuid_to_query' = uuid_to_query
                /\ report'.num_usage_query_hash_collisions
                      = report.num_usage_query_hash_collisions
      ]_vars

\* a text was stored under a surrogate key while the entry of its hash
\* holds a different text
C9_Witness ==
    /\ report.num_usage_query_hash_collisions >= 1
    /\ \E ref \in DOMAIN uuid_to_query :
          /\ md5(uuid_to_query[ref]) \in DOMAIN queries
          /\ queries[md5(uuid_to_query[ref])] # uuid_to_query[ref]

(***************************************************************************)
(* C10: ingesting a ReadEvent inside the window whose resource is not in   *)
(* table_refs changes no store mapping (so the correlated events and the   *)
(* usage statistics stay the same), counts no error and no stored event,   *)
(* and adds exactly one to num_usage_resources_dropped.                    *)
(***************************************************************************)
C10_UnknownResourceDropped ==
    [][ ( /\ Len(log') = Len(log) + 1
          /\ HasRead(log'[Len(log')])
          /\ start_time <= log'[Len(log')].read_event.timestamp
          /\ log'[Len(log')].read_event.timestamp < end_time
          /\ Str(log'[Len(log')].read_event.resource) \notin table_refs )
        => /\ read_events' = read_events
           /\ column_accesses' = column_accesses
           /\ query_events' = query_events
           /\ queries' = queries
           /\ uuid_to_query' = uuid_to_query
           /\ standalone_events' = standalone_events
           /\ usage_statistics(2)' = usage_statistics(2)
           /\ report'.usage_error_count = report.usage_error_count
           /\ report'.num_aggregated = report.num_aggregated
           /\ report'.num_usage_resources_dropped
                 = report.num_usage_resources_dropped + 1
      ]_vars

\* a read of an unknown resource was the last event ingested, after a read
\* that was stored
C10_Witness ==
    /\ Len(log) >= 2
    /\ HasRead(log[Len(log)])
    /\ start_time <= log[Len(log)].read_event.timestamp
    /\ log[Len(log)].read_event.timestamp < end_time
    /\ Str(log[Len(log)].read_event.resource) \notin table_refs
    /\ report.num_usage_resources_dropped >= 1
    /\ read_events # <<>>


(***************************************************************************)
(* C11: which ReadEvents are stored, and how the others are counted.       *)
(***************************************************************************)
ReadIdx == {i \in 1 .. Len(log) : HasRead(log[i])}

\* positions of the reads inside the window whose table is unknown or
\* temporary
FilteredIdx ==
    {i \in ReadIdx \ AcceptedIdx :
        /\ start_time <= log[i].read_event.timestamp
        /\ log[i].read_event.timestamp < end_time}

\* the stored reads are the reads of the input that lie in the window
\* [start_time, end_time), are of a known table and not of a temporary one
StoredIffAccepted ==
    /\ Cardinality(DOMAIN read_events) = Cardinality(AcceptedIdx)
    /\ {read_events[key] : key \in DOMAIN read_events}
          = {log[i].read_event : i \in AcceptedIdx}

NoErrorCounted ==
    /\ \A label \in DOMAIN report.usage_error_count :
          report.usage_error_count[label] = 0
    /\ report.warnings = {}

\* C11 as stated: a ReadEvent is stored if and only if it lies in the
\* window, its table is known and not temporary; every ReadEvent that is
\* not stored, also one at end_time or outside the window, is counted as
\* dropped and is not an error.
C11_EveryUnstoredReadCounted ==
    /\ StoredIffAccepted
    /\ report.num_dropped = Cardinality(ReadIdx \ AcceptedIdx)
    /\ NoErrorCounted

\* C11 amended: a ReadEvent is stored if and only if it lies in the
\* window, its table is known and not temporary; a ReadEvent inside the
\* window that is not stored is counted as dropped (an unknown table also
\* under num_usage_resources_dropped); a ReadEvent at end_time or outside
\* the window is left out without being counted; none is an error.
C11_UnstoredInWindowCounted ==
    /\ StoredIffAccepted
    /\ report.num_dropped = Cardinality(FilteredIdx)
    /\ report.num_usage_resources_dropped =
          Cardinality({i \in FilteredIdx :
                          Str(log[i].read_event.resource) \notin table_refs})
    /\ NoErrorCounted

\* a read was stored, a read inside the window was filtered and a read with
\* timestamp end_time was left out
C11_Witness ==
    /\ AcceptedIdx # {}
    /\ FilteredIdx # {}
    /\ \E i \in ReadIdx : log[i].read_event.timestamp = end_time
    /\ pc = "closed"


(***************************************************************************)
(* C12: a query reference whose resolution to text fails while the usage   *)
(* records are produced.                                                   *)
(***************************************************************************)
\* the rows the usage pass iterates over
UsageEntries == usage_statistics(TopN)

\* the resolution of a reference of the row raises: the reference is not a
\* key of queries
Unresolved(entry) ==
    \E n \in 1 .. Len(entry.query_freq) :
        entry.query_freq[n][1] \notin DOMAIN queries

\* a usage record of the row's (bucket, resource) was emitted
Emitted(entry) ==
    \E i \in 1 .. Len(usage_wus) :
        /\ usage_wus[i].timestamp = entry.timestamp
        /\ usage_wus[i].resource = entry.resource

\* the usage pass has run to its end
UsagePassDone ==
    /\ pc \in {"usage", "closed"}
    /\ <<"usage-", "ingestion">> \notin report.warnings

Faulted(e) == "fault" \in DOMAIN e

\* the run was left by an exception
IsFatal(e) == "fatal" \in DOMAIN e

Aborted == \E i \in 1 .. Len(log) : IsFatal(log[i])

WriteFailedIdx == {i \in 1 .. Len(log) : Faulted(log[i])}

\* the QueryEvents without text, at which _store_usage_event raises
MalformedIdx ==
    {i \in 1 .. Len(log) :
        /\ HasQuery(log[i])
        /\ log[i].query_event.job_name # ""
        /\ log[i].query_event.query = NoQuery}

RaisedIdx == WriteFailedIdx \cup MalformedIdx

\* the reads that reached the store: accepted, and the write to read_events
\* did not fail
StoredIdx ==
    {i \in AcceptedIdx : Faulted(log[i]) => log[i].fault > 1}

\* the jobs whose QueryEvent reached query_events
StoredJobs ==
    {log[i].query_event.job_name :
        i \in {n \in 1 .. Len(log) \ RaisedIdx :
                  HasQuery(log[n]) /\ log[n].query_event.job_name # ""}}

(***************************************************************************)
(* C13: a write to the store fails while an event is ingested.             *)
(***************************************************************************)
\* C13 as stated: the failure aborts the run: no later event of the stream
\* is ingested and no workunit is emitted afterwards.
C13_WriteFailureAborts ==
    \A i \in WriteFailedIdx :
        /\ \A n \in (i + 1) .. Len(log) : IsFatal(log[n])
        /\ operation_wus = <<>>
        /\ usage_wus = <<>>

\* C13 amended: the failure is caught in the ingestion loop and counted
\* under "store-event"; what the event had written before the failing write
\* stays in the store, the later events of the stream are still ingested
\* and the run is not aborted by it.
C13_WriteFailureCounted ==
    /\ report.usage_error_count["store-event"] = Cardinality(RaisedIdx)
    /\ (<<"usage-", "store-event">> \in report.warnings) <=> RaisedIdx # {}
    /\ Cardinality(DOMAIN read_events) = Cardinality(StoredIdx)
    /\ {read_events[key] : key \in DOMAIN read_events}
          = {log[i].read_event : i \in StoredIdx}
    /\ DOMAIN query_events = StoredJobs
    /\ ~Aborted => /\ <<"usage-", "ingestion">> \notin report.warnings
                   /\ conn = "closed" <=> pc = "closed"

\* a write failed, a later event was stored and the run went to its end
\* with workunits emitted
C13_Witness ==
    /\ pc = "closed"
    /\ ~Aborted
    /\ \E i \in WriteFailedIdx :
          \E n \in (i + 1) .. Len(log) :
              n \in StoredIdx \/ (HasQuery(log[n]) /\ n \notin RaisedIdx)
    /\ operation_wus # <<>>

(***************************************************************************)
(* C14: an exception that leaves the with block of _run.                   *)
(***************************************************************************)
\* C14 as stated: the error is surfaced to the caller as a failure: _run
\* ends by raising.
C14_FatalErrorRaised == Aborted => pc = "raised"

\* C14 amended: the error is caught by _run and recorded in the report as
\* the warning "usage-ingestion"; _run returns without raising, and a run
\* that completed carries no such warning.
C14_FatalErrorRecorded ==
    /\ Aborted => /\ pc = "closed"
                  /\ <<"usage-", "ingestion">> \in report.warnings
    /\ ~Aborted => <<"usage-", "ingestion">> \notin report.warnings

\* a pass was left by an exception after it had emitted a workunit
C14_Witness ==
    /\ Aborted
    /\ pc = "closed"
    /\ operation_wus # <<>> \/ usage_wus # <<>>

(***************************************************************************)
(* C15: the store is closed on every way out of _run.                      *)
(***************************************************************************)
\* C15: when _run has ended, at its end or by an error raised during
\* ingestion, index creation, the operational pass or the usage pass, the
\* store is closed; it is open while _run is running.
C15_StoreClosedOnExit ==
    /\ pc = "closed" => conn = "closed"
    /\ pc # "closed" => conn = "open"

\* _run was left by an exception with events in the store, and the store is
\* closed
C15_Witness ==
    /\ \E i \in 1 .. Len(log) :
          IsFatal(log[i]) /\ log[i].fatal \in {"operational", "usage"}
    /\ DOMAIN read_events # {}
    /\ conn = "closed"

(***************************************************************************)
(* C16: a failure at one event does not end the stream.                    *)
(***************************************************************************)
\* the operational pass has run over all correlated events
OperationalPassDone ==
    /\ config.include_operational_stats
    /\ pc \in {"operational", "usage", "closed"}
    /\ \A i \in 1 .. Len(log) : IsFatal(log[i]) => log[i].fatal = "usage"

\* C16: an event at which _store_usage_event raises is counted under
\* "store-event" and every later event of the input is still stored as it
\* would be alone; a correlated event at which _create_operation_workunit
\* raises is counted under "operation-workunit" and the workunit of every
\* other correlated event, also of the later ones, is still emitted.
C16_LaterEventsProcessed ==
    /\ report.usage_error_count["store-event"] = Cardinality(RaisedIdx)
    /\ \A i \in RaisedIdx :
          \A n \in (i + 1) .. Len(log) :
              /\ n \in StoredIdx =>
                    \E key \in DOMAIN read_events :
                        read_events[key] = log[n].read_event
              /\ (HasQuery(log[n]) /\ n \notin RaisedIdx
                  /\ log[n].query_event.job_name # "") =>
                    log[n].query_event.job_name \in DOMAIN query_events
    /\ OperationalPassDone =>
          /\ report.usage_error_count["operation-workunit"] =
                Cardinality({n \in 1 .. Len(standalone_events) :
                    _create_operation_workunit(standalone_events[n]).raised})
          /\ \A n \in 1 .. Len(standalone_events) :
                LET wu == _create_operation_workunit(standalone_events[n]).wu
                IN wu # <<>> =>
                      \E m \in 1 .. Len(operation_wus) :
                          operation_wus[m] = wu[1]

\* _store_usage_event raised at an event and a later event was stored;
\* _create_operation_workunit raised at a correlated event and the workunit
\* of a later one was emitted
C16_Witness ==
    /\ pc = "closed"
    /\ \E i \in RaisedIdx :
          \E n \in (i + 1) .. Len(log) :
              /\ HasQuery(log[n])
              /\ n \notin RaisedIdx
              /\ log[n].query_event.job_name \in DOMAIN query_events
    /\ \E n \in 1 .. Len(standalone_events) :
          /\ _create_operation_workunit(standalone_events[n]).raised
          /\ \E m \in (n + 1) .. Len(standalone_events) :
                /\ _create_operation_workunit(standalone_events[m]).wu # <<>>
                /\ _create_operation_workunit(standalone_events[m]).wu[1]
                      \in {operation_wus[k] : k \in 1 .. Len(operation_wus)}


(***************************************************************************)
(* C17: the usage records do not depend on the surrogate keys of a run.    *)
(***************************************************************************)
\* the usage records the usage pass emits from the store
UsageOutput == UsageWorkunits(usage_statistics(TopN))

\* a second run over the same input has been made
Repeated == \E i \in 1 .. Len(log) : "rerun" \in DOMAIN log[i]

RECURSIVE TextLess(_, _)
TextLess(s, t) ==
    IF t = <<>> THEN FALSE
    ELSE IF s = <<>> THEN TRUE
    ELSE IF Head(s) = Head(t) THEN TextLess(Tail(s), Tail(t))
    ELSE Head(s) < Head(t)

\* C18: in the query_freq of every emitted usage record, entries with equal
\* counts stand in lexicographic order of their literal query texts, the
\* smaller text first.
C18_TiesInTextOrder ==
    \A w \in 1 .. Len(usage_wus) :
        \A i \in 1 .. Len(usage_wus[w].query_freq) :
            \A j \in (i + 1) .. Len(usage_wus[w].query_freq) :
                usage_wus[w].query_freq[i][2] = usage_wus[w].query_freq[j][2]
                => TextLess(usage_wus[w].query_freq[i][1],
                            usage_wus[w].query_freq[j][1])


(***************************************************************************)
(* C19: the "text" property of an operation record.                        *)
(***************************************************************************)
\* (references and texts are both strings in the program: they are compared
\* as strings)
\* C19: with extended read-operation properties enabled, the "text" property
\* of every operation record derived from a stored QueryEvent is the
\* truncated query text that QueryEvent carried when it was ingested.
C19_TextPropertyIsLiteralText ==
    \A wu \in OperationWus :
        (config.include_read_operational_stats /\ HasQuery(wu.event)) =>
            ToString(wu.customProperties["text"])
               = ToString(IngestedText(wu.event.query_event.job_name))


(***************************************************************************)
(* C20: query_count of a usage record.                                     *)
(***************************************************************************)
\* positions of the stored reads of a (bucket, resource)
ReadsOfGroup(timestamp, resource) ==
    {i \in AcceptedIdx :
        /\ get_time_bucket(log[i].read_event.timestamp) = timestamp
        /\ Str(log[i].read_event.resource) = resource}

\* C20: on the store the usage pass reads, the query_count of every record
\* of usage_statistics is the number of stored reads of its (bucket,
\* resource) whose job name is the key of a stored QueryEvent; a stored read
\* without job name or without stored QueryEvent of its job adds nothing.
C20_QueryCountIsJoinedReads ==
    pc = "operational" =>
        \A n \in 1 .. Len(UsageEntries) :
            UsageEntries[n].query_count =
                Cardinality({i \in ReadsOfGroup(UsageEntries[n].timestamp,
                                                UsageEntries[n].resource) :
                                log[i].read_event.jobName \in SeenJobs})

\* a record whose (bucket, resource) holds a read joined to a QueryEvent and
\* a read without job name or without QueryEvent of its job
C20_Witness ==
    /\ pc = "operational"
    /\ \E n \in 1 .. Len(UsageEntries) :
          /\ UsageEntries[n].query_count >= 1
          /\ \E i \in ReadsOfGroup(UsageEntries[n].timestamp,
                                   UsageEntries[n].resource) :
                log[i].read_event.jobName \notin SeenJobs

(***************************************************************************)
(* C21: user_freq and column_freq of a usage record.                       *)
(***************************************************************************)
\* the actors of the stored reads of a (bucket, resource)
ActorsOfGroup(timestamp, resource) ==
    {log[i].read_event.actor_email : i \in ReadsOfGroup(timestamp, resource)}

\* the (read, position) pairs of the fields of the stored reads of a
\* (bucket, resource)
FieldUses(timestamp, resource) ==
    UNION { {<<i, p>> : p \in 1 .. Len(log[i].read_event.fieldsRead)}
            : i \in ReadsOfGroup(timestamp, resource) }

FieldOfUse(u) == log[u[1]].read_event.fieldsRead[u[2]]

\* a list of (value, count) pairs is in order of count descending, then of
\* value ascending, and names no value twice
FreqOrdered(freq) ==
    \A a, b \in 1 .. Len(freq) :
        a < b => \/ freq[a][2] > freq[b][2]
                 \/ freq[a][2] = freq[b][2] /\ ord(freq[a][1]) < ord(freq[b][1])

\* C21: on the store the usage pass reads, user_freq of every usage record
\* lists exactly the actors of the stored reads of its (bucket, resource),
\* each with its number of reads, and column_freq lists exactly the fields
\* of those reads, each with its number of ColumnAccess rows; both lists are
\* in order of count descending, then of value ascending.
C21_UserAndColumnFreq ==
    pc = "operational" =>
        \A n \in 1 .. Len(UsageEntries) :
            LET entry == UsageEntries[n]
                reads == ReadsOfGroup(entry.timestamp, entry.resource)
                uses == FieldUses(entry.timestamp, entry.resource)
            IN /\ {entry.user_freq[k] : k \in 1 .. Len(entry.user_freq)}
                    = { <<actor,
                          Cardinality({i \in reads :
                              log[i].read_event.actor_email = actor})>>
                        : actor \in ActorsOfGroup(entry.timestamp,
                                                  entry.resource) }
               /\ {entry.column_freq[k] : k \in 1 .. Len(entry.column_freq)}
                    = { <<FieldOfUse(u),
                          Cardinality({v \in uses :
                              FieldOfUse(v) = FieldOfUse(u)})>>
                        : u \in uses }
               /\ FreqOrdered(entry.user_freq)
               /\ FreqOrdered(entry.column_freq)

\* a record whose user_freq puts the later actor first because it has more
\* reads, and whose column_freq holds two fields with different counts
C21_Witness ==
    /\ pc = "operational"
    /\ \E n \in 1 .. Len(UsageEntries) :
          LET entry == UsageEntries[n] IN
          /\ Len(entry.user_freq) >= 2
          /\ entry.user_freq[1][2] > entry.user_freq[2][2]
          /\ ord(entry.user_freq[1][1]) > ord(entry.user_freq[2][1])
          /\ Len(entry.column_freq) >= 2
          /\ entry.column_freq[1][2] > entry.column_freq[2][2]

(***************************************************************************)
(* C22: one record for each (bucket, resource) with a joined read.         *)
(***************************************************************************)
\* the (bucket, resource) pairs of the stored reads
StoredGroups ==
    { <<get_time_bucket(log[i].read_event.timestamp),
        Str(log[i].read_event.resource)>> : i \in AcceptedIdx }

\* the (bucket, resource) pairs that hold a stored read whose job has a
\* stored QueryEvent
JoinedGroups ==
    { <<get_time_bucket(log[i].read_event.timestamp),
        Str(log[i].read_event.resource)>>
      : i \in {a \in AcceptedIdx : log[a].read_event.jobName \in SeenJobs} }

\* C22: on the store the usage pass reads, usage_statistics yields one
\* record for each (bucket, resource) that has a stored read joined to a
\* stored QueryEvent and none for any other (bucket, resource); no two
\* records have the same (bucket, resource), and the records are in
\* ascending order of bucket, then of resource.
C22_OneRecordPerJoinedGroup ==
    pc = "operational" =>
        /\ {<<UsageEntries[n].timestamp, UsageEntries[n].resource>>
               : n \in 1 .. Len(UsageEntries)} = JoinedGroups
        /\ \A a, b \in 1 .. Len(UsageEntries) :
              a < b =>
                 \/ UsageEntries[a].timestamp < UsageEntries[b].timestamp
                 \/ /\ UsageEntries[a].timestamp = UsageEntries[b].timestamp
                    /\ SeqLess(UsageEntries[a].resource,
                               UsageEntries[b].resource)

\* two records of one bucket and different resources, and a (bucket,
\* resource) with a stored read that has no record
C22_Witness ==
    /\ pc = "operational"
    /\ Len(UsageEntries) >= 2
    /\ UsageEntries[1].timestamp = UsageEntries[2].timestamp
    /\ StoredGroups \ JoinedGroups # {}

(***************************************************************************)
(* C23: top-N equal to 0.                                                  *)
(***************************************************************************)
\* largest top-N the records of top-N 0 are compared with
MaxTopN == 2

\* C23: on the store the usage pass reads, every record of
\* usage_statistics(0) has an empty query_freq and is otherwise the record
\* of usage_statistics(n) for every n >= 1; a run whose top-N is 0, by its
\* value or because top-N queries are not included, emits only usage records
\* with an empty query_freq.
C23_TopNZeroOnlyEmptiesQueryFreq ==
    /\ pc = "operational" =>
          \A top_n \in 1 .. MaxTopN :
             /\ Len(usage_statistics(0)) = Len(usage_statistics(top_n))
             /\ \A n \in 1 .. Len(usage_statistics(0)) :
                   /\ usage_statistics(0)[n].query_freq = <<>>
                   /\ [usage_statistics(top_n)[n] EXCEPT !.query_freq = <<>>]
                         = usage_statistics(0)[n]
    /\ (pc \in {"usage", "closed"} /\ TopN = 0) =>
          \A i \in 1 .. Len(usage_wus) : usage_wus[i].query_freq = <<>>

\* a run with top-N 0 has emitted a usage record whose query_freq would
\* hold an entry with top-N 1
C23_Witness ==
    /\ pc = "usage"
    /\ TopN = 0
    /\ Len(usage_wus) >= 1
    /\ usage_statistics(1)[1].query_freq # <<>>

(***************************************************************************)
(* C24: the rows of column_accesses.                                       *)
(***************************************************************************)
\* the (read key, position) pairs of the fields of the stored reads
StoredFieldUses ==
    UNION { {<<key, p>> : p \in 1 .. Len(read_events[key].fieldsRead)}
            : key \in DOMAIN read_events }

\* the (log position, position) pairs of the fields of the accepted reads
AcceptedFieldUses ==
    UNION { {<<i, p>> : p \in 1 .. Len(log[i].read_event.fieldsRead)}
            : i \in AcceptedIdx }

\* C24: in every state of the run, every row of column_accesses is a (read
\* key, field) pair of a key of read_events and a field of that read,
\* every field of every stored read has exactly one row, and the number of
\* rows is the number of fields of the accepted reads of the input: a
\* stored read without fields and a dropped read add no row.
C24_ColumnAccessesOfStoredReads ==
    /\ \A c \in DOMAIN column_accesses :
          /\ column_accesses[c][1] \in DOMAIN read_events
          /\ \E p \in 1 .. Len(read_events[column_accesses[c][1]].fieldsRead) :
                read_events[column_accesses[c][1]].fieldsRead[p]
                   = column_accesses[c][2]
    /\ \A u \in StoredFieldUses :
          Cardinality({c \in DOMAIN column_accesses :
              column_accesses[c]
                 = <<u[1], read_events[u[1]].fieldsRead[u[2]]>>}) = 1
    /\ Cardinality(DOMAIN column_accesses) = Cardinality(AcceptedFieldUses)

\* the input held a read with two fields that was stored, a stored read
\* without fields, and a dropped read with a field
C24_Witness ==
    /\ \E key \in DOMAIN read_events : Len(read_events[key].fieldsRead) = 2
    /\ \E key \in DOMAIN read_events : read_events[key].fieldsRead = <<>>
    /\ \E i \in ReadIdx \ AcceptedIdx : log[i].read_event.fieldsRead # <<>>

(***************************************************************************)
(* C25: the order of the phases of a run.                                  *)
(***************************************************************************)
\* a workunit has been emitted
SomeEmitted == operation_wus # <<>> \/ usage_wus # <<>>

\* C25: in every run, with or without failures: a workunit is emitted only
\* after ingestion has ended and the indexes are created; once ingestion has
\* ended no mapping of the store is written; a usage workunit is emitted
\* only when, with operational stats enabled, all operation workunits of the
\* store have been emitted, and no operation workunit is emitted after a
\* usage workunit; the store is closed only at the end of the run, and no
\* workunit is emitted after it is closed.
C25_PhasesOrdered ==
    /\ [](SomeEmitted => pc \notin {"ingest", "indexed"})
    /\ [](usage_wus # <<>> => pc \in {"usage", "closed"})
    /\ [](conn = "closed" => pc = "closed")
    /\ [][pc # "ingest" => store' = store]_vars
    /\ [][SomeEmitted => store' = store /\ uuid_to_query' = uuid_to_query]_vars
    /\ [][usage_wus' # usage_wus =>
            /\ operation_wus' = operation_wus
            /\ config.include_operational_stats =>
                  operation_wus = OperationWorkunits(standalone_events)]_vars
    /\ [][operation_wus' # operation_wus =>
            usage_wus = <<>> /\ usage_wus' = <<>>]_vars
    /\ [][conn = "closed" =>
            operation_wus' = operation_wus /\ usage_wus' = usage_wus]_vars

\* a run that emitted operation workunits and usage workunits has ended and
\* the store is closed
C25_Witness ==
    /\ pc = "closed"
    /\ conn = "closed"
    /\ ~Aborted
    /\ operation_wus # <<>>
    /\ usage_wus # <<>>

(***************************************************************************)
(* C26: the category of a correlated event made of a QueryEvent alone.     *)
(***************************************************************************)
\* the write category the claim gives a statement type, None for the types
\* it calls other
WriteCategoryOf(t) ==
    CASE t \in {"INSERT", "UPDATE", "DELETE"} -> t
      [] t = "MERGE" -> "UPDATE"
      [] t \in CreateTypes -> "CREATE"
      [] t \in DropTypes -> "DROP"
      [] t \in AlterTypes -> "ALTER"
      [] OTHER -> None

\* the classification the claim gives a QueryEvent without ReadEvent
ClassifiedAsClaimed(q, statement_type, custom_type, actor, timestamp) ==
    /\ IF WriteCategoryOf(q.statementType) # None
       THEN /\ statement_type = WriteCategoryOf(q.statementType)
            /\ custom_type = None
       ELSE /\ statement_type = "CUSTOM"
            /\ custom_type = q.statementType
    /\ actor = q.actor_email
    /\ timestamp = q.timestamp * 1000

\* the QueryEvents of the input
QueriesOfLog ==
    {log[i].query_event : i \in {a \in 1 .. Len(log) : HasQuery(log[a])}}

\* C26: every operation record made of a QueryEvent without ReadEvent, and
\* the operational metadata of every QueryEvent of the input taken alone,
\* has the mapped write category and no custom type when the statement type
\* is a known write type, the custom category with the statement type as
\* custom type otherwise, and the actor and timestamp of the QueryEvent.
C26_QueryOnlyCategory ==
    /\ \A wu \in OperationWus :
          (HasQuery(wu.event) /\ ~HasRead(wu.event)) =>
              ClassifiedAsClaimed(wu.event.query_event, wu.operationType,
                                  wu.customOperationType, wu.actor,
                                  wu.lastUpdatedTimestamp)
    /\ \A q \in QueriesOfLog :
          LET meta == _extract_operational_meta(OfQuery(q)) IN
          ClassifiedAsClaimed(q, meta.statement_type, meta.custom_type,
                              meta.actor_email, meta.last_updated_timestamp)

\* operation records of QueryEvents alone were emitted, one of a MERGE with
\* category UPDATE and one of a type outside the table with the custom
\* category
C26_Witness ==
    /\ \E wu \in OperationWus :
          /\ ~HasRead(wu.event)
          /\ wu.event.query_event.statementType = "MERGE"
          /\ wu.operationType = "UPDATE"
    /\ \E wu \in OperationWus :
          /\ ~HasRead(wu.event)
          /\ wu.event.query_event.statementType = "TRUNCATE_TABLE"
          /\ wu.operationType = "CUSTOM"

(***************************************************************************)
(* C27: equal query texts and their references.                            *)
(***************************************************************************)
\* C27: in every state, two stored QueryEvents whose truncated query texts
\* are equal carry the same query reference, also when the text collides by
\* hash with a different text ingested earlier.
C27_SameTextSameReference ==
    \A j, k \in DOMAIN query_events :
        IngestedText(j) = IngestedText(k) =>
            query_events[j].query = query_events[k].query

(***************************************************************************)
(* C28: the state after an event at which _store_usage_event raises.       *)
(***************************************************************************)
\* C28: a step of ingestion in which _store_usage_event raises leaves
\* read_events, column_accesses, queries, query_events, uuid_to_query and
\* the collision counter as they were before the event.
C28_FailureIsAtomic ==
    [][(Len(log') = Len(log) + 1 /\ Len(log') \in RaisedIdx') =>
          /\ store' = store
          /\ uuid_to_query' = uuid_to_query
          /\ report'.num_usage_query_hash_collisions
                = report.num_usage_query_hash_collisions]_vars

(***************************************************************************)
(* C29: the operation records with the extended read-operation properties  *)
(* option on and off.                                                      *)
(***************************************************************************)
\* (destination, category, actor, source timestamp) of an operation record
RecordKey(wu) ==
    <<wu.entityUrn, wu.operationType, wu.actor, wu.lastUpdatedTimestamp>>

\* the same of the record a correlated event gives, whatever the option
RecordKeyOf(event) ==
    <<_get_destination_table(event),
      _extract_operational_meta(event).statement_type,
      _extract_operational_meta(event).actor_email,
      _extract_operational_meta(event).last_updated_timestamp>>

\* the correlated events of the store that have a destination among
\* table_refs: the events a record is emitted for with the option on
RecordedEvents ==
    {e \in {standalone_events[i] : i \in 1 .. Len(standalone_events)} :
        /\ _get_destination_table(e) # NoTable
        /\ Str(_get_destination_table(e)) \in table_refs}

\* C29: after the operational pass, the set of (destination, category,
\* actor, source timestamp) of the emitted operation records is the same
\* whether include_read_operational_stats is on or off: it is that of all
\* correlated events with a destination among table_refs.
C29_SameRecordsWithOptionOff ==
    (pc = "operational" /\ config.include_operational_stats) =>
        {RecordKey(wu) : wu \in OperationWus}
           = {RecordKeyOf(e) : e \in RecordedEvents}

\* C29 as the code has it: with the option on a record is emitted for every
\* correlated event with a destination among table_refs; with the option
\* off only for those whose category is not the custom category.
C29_OptionOffDropsCustomRecords ==
    (pc = "operational" /\ config.include_operational_stats) =>
        {RecordKey(wu) : wu \in OperationWus}
           = {RecordKeyOf(e) :
                 e \in {r \in RecordedEvents :
                           \/ config.include_read_operational_stats
                           \/ RecordKeyOf(r)[2] # "CUSTOM"}}

\* with the option off, a record of a write category was emitted and an
\* event of the custom category with a destination among table_refs was not
C29_Witness ==
    /\ pc = "operational"
    /\ config.include_operational_stats
    /\ ~config.include_read_operational_stats
    /\ operation_wus # <<>>
    /\ \E e \in RecordedEvents : RecordKeyOf(e)[2] = "CUSTOM"

(***************************************************************************)
(* C30: a failure while the events of one project are fetched.             *)
(***************************************************************************)
\* the stream of _get_usage_events has ended
StreamEnded == project_idx = Len(projects) + 1

\* the projects given to _get_usage_events
AllProjects == {projects[i] : i \in 1 .. Len(projects)}

\* C30: a step in which fetching the current project fails appends that
\* project to usage_failed_extraction, takes nothing out of the events
\* yielded so far and moves to the next project; the stream never loses an
\* event; only projects already left are listed as failed; the stream ends,
\* and when it has ended every project has been processed.
C30_FailureEndsOneProject ==
    /\ [][report'.usage_failed_extraction # report.usage_failed_extraction =>
            /\ report'.usage_failed_extraction
                  = Append(report.usage_failed_extraction,
                           projects[project_idx])
            /\ yielded' = yielded
            /\ project_idx' = project_idx + 1]_vars
    /\ [][/\ Len(yielded') >= Len(yielded)
          /\ SubSeq(yielded', 1, Len(yielded)) = yielded]_vars
    /\ [](\A i \in 1 .. Len(report.usage_failed_extraction) :
             \E k \in 1 .. project_idx - 1 :
                projects[k] = report.usage_failed_extraction[i])
    /\ [](StreamEnded => report.usage_extraction_sec = AllProjects)
    /\ <>StreamEnded

\* the stream has ended; the first project failed after it had yielded an
\* event, which is still in the stream, followed by an event of a later
\* project
C30_Witness ==
    /\ StreamEnded
    /\ Len(projects) > 1
    /\ report.usage_failed_extraction = <<projects[1]>>
    /\ Len(yielded) >= 2
    /\ yielded[1].project_id = projects[1]
    /\ yielded[2].project_id # projects[1]

(***************************************************************************)
(* C31: the counts of user_freq against query_count.                       *)
(***************************************************************************)
\* the sum of the counts of a list of (value, count) pairs
FreqTotal(freq) == SumSeq([k \in 1 .. Len(freq) |-> freq[k][2]])

\* every stored read of the (bucket, resource) has the job name of a stored
\* QueryEvent
AllReadsJoined(timestamp, resource) ==
    \A i \in ReadsOfGroup(timestamp, resource) :
        log[i].read_event.jobName \in StoredJobs

\* C31: on the store the usage pass reads, the counts of user_freq of every
\* usage record add up to the number of stored reads of its (bucket,
\* resource), which is at least its query_count, and the two are equal
\* exactly when every stored read of that (bucket, resource) has a stored
\* QueryEvent of its job.
C31_UserFreqSumAtLeastQueryCount ==
    pc = "operational" =>
        \A n \in 1 .. Len(UsageEntries) :
            LET entry == UsageEntries[n]
                total == FreqTotal(entry.user_freq)
            IN /\ total = Cardinality(ReadsOfGroup(entry.timestamp,
                                                   entry.resource))
               /\ total >= entry.query_count
               /\ (total = entry.query_count)
                     <=> AllReadsJoined(entry.timestamp, entry.resource)

\* two usage records of one run: one of a (bucket, resource) with reads of
\* two actors of which one read has no stored QueryEvent, so that the counts
\* of user_freq add up to more than query_count, and one of a (bucket,
\* resource) whose reads are all joined, so that they add up to query_count
C31_Witness ==
    /\ pc = "operational"
    /\ \E n, m \in 1 .. Len(UsageEntries) :
          /\ Len(UsageEntries[n].user_freq) >= 2
          /\ FreqTotal(UsageEntries[n].user_freq)
                > UsageEntries[n].query_count
          /\ UsageEntries[n].query_count >= 1
          /\ FreqTotal(UsageEntries[m].user_freq)
                = UsageEntries[m].query_count

====
